---- MODULE Spec2Model ----
(***************************************************************************)
(* BrowserLens observation pipeline: the BrowserLens orchestrator          *)
(* (core/lens.py), RefManager, the four extractors, AdaptiveRouter and     *)
(* RepresentationStrategy, StateDiffer / diff_trees / SemanticFilter,      *)
(* OutputFormatter and TokenBudget.                                        *)
(*                                                                         *)
(* Trees are kept in depth-first (pre-order) sequences; every node carries *)
(* the index of its parent (0 for the root).  Strings are real strings;    *)
(* the two non-ASCII characters of the formatter (the dash of the headers  *)
(* and the arrow of a change line) are written "-" and ">", one character  *)
(* each as in the source.                                                  *)
(***************************************************************************)
EXTENDS Integers, Sequences, FiniteSets, TLC

(***************************************************************************)
(* Bounds of the model.                                                    *)
(***************************************************************************)
MaxChildren == 2
MaxStep == 2
MaxTicks == 1
MaxListed == 2
MaxTextLen == 16
MaxLimit == 4
MaxCalls == 4
MaxWorkflowSteps == 3
MaxPending == 1
MaxSwitches == 2
MaxDifferCalls == 3

\* Python's None, where the other values are strings, records, tuples.
None == "None"
NoneRec == [none |-> TRUE]
NoneTuple == <<>>

(***************************************************************************)
(* core/types.py                                                           *)
(***************************************************************************)
A11Y_TREE == "a11y_tree"
DISTILLED_DOM == "distilled_dom"
VISION == "vision"
HYBRID == "hybrid"
RepresentationType == {A11Y_TREE, DISTILLED_DOM, VISION, HYBRID}

\* The fields the ObservationResult dataclass declares.
ObservationResultFields ==
    {"step", "url", "representation_type", "formatted_text", "delta",
     "page_state", "token_count", "latency_ms"}

\* The public and private methods OutputFormatter defines.
OutputFormatterMethods ==
    {"format", "_format_full", "_render_node", "_format_delta", "_render_change"}

(***************************************************************************)
(* Sequence helpers.                                                       *)
(***************************************************************************)
Range(s) == {s[i] : i \in 1..Len(s)}

RECURSIVE SeqsUpTo(_, _)
SeqsUpTo(S, n) ==
    IF n = 0 THEN {<<>>}
    ELSE LET shorter == SeqsUpTo(S, n - 1)
         IN  shorter \cup {Append(s, x) : s \in {t \in shorter : Len(t) = n - 1}, x \in S}

Min(a, b) == IF a < b THEN a ELSE b
Max(a, b) == IF a > b THEN a ELSE b

(***************************************************************************)
(* The browser: what a page answers to the queries of one observe() call.  *)
(***************************************************************************)
\* A raw node as the accessibility snapshot / the injected DOM script gives it.
RawNode(role, name, value, parent) ==
    [role |-> role, name |-> name, value |-> value, checked |-> "unset",
     expanded |-> "unset", disabled |-> FALSE, focused |-> FALSE, live |-> "",
     parent |-> parent]

RawRoot == RawNode("document", "", "", 0)

RawChildKinds ==
    {RawNode("button", "Go", "", 1),
     RawNode("textbox", "Q", "", 1),
     RawNode("textbox", "Q", "x", 1)}

\* Raw trees: no snapshot at all (the empty sequence), or a document root
\* with up to MaxChildren children, repeated children included.
RawTrees ==
    {<<>>} \cup {<<RawRoot>> \o kids : kids \in SeqsUpTo(RawChildKinds, MaxChildren)}

Url(netloc, path) == [scheme |-> "https", netloc |-> netloc, path |-> path]

Urls == {Url("a.test", "/"), Url("a.test", "/login")}

UrlStr(u) == u.scheme \o "://" \o u.netloc \o u.path

\* What the two signal queries of SignalExtractor.extract return.
Dom(canvas, webgl, interactive, named, nodes, boxes) ==
    [hasCanvas |-> canvas, hasWebGL |-> webgl, interactiveCount |-> interactive,
     namedCount |-> named, nodeCount |-> nodes, maxDepth |-> 3, boxes |-> boxes]

DomProfiles ==
    {Dom(FALSE, FALSE, 10, 9, 100, 0),
     Dom(TRUE, FALSE, 10, 3, 100, 1)}

(***************************************************************************)
(* formatter/ref_manager.py                                                *)
(***************************************************************************)
EmptyMap == [x \in {} |-> None]

NewRefManager == [counter |-> 0, fp_to_ref |-> EmptyMap, ref_to_fp |-> EmptyMap]

RefName(n) == "@e" \o ToString(n)

GetOrCreateAlwaysNew(rm, fp) ==
    LET c == rm.counter + 1
        ref == RefName(c)
    IN  [rm |-> [counter |-> c,
                 fp_to_ref |-> [x \in DOMAIN rm.fp_to_ref \cup {fp} |->
                                   IF x = fp THEN ref ELSE rm.fp_to_ref[x]],
                 ref_to_fp |-> [x \in DOMAIN rm.ref_to_fp \cup {ref} |->
                                   IF x = ref THEN fp ELSE rm.ref_to_fp[x]]],
         ref |-> ref]

\* RefManager.get_or_create: the manager after the call and the ref returned.
GetOrCreate(rm, fp) ==
    IF fp \in DOMAIN rm.fp_to_ref
    THEN [rm |-> rm, ref |-> rm.fp_to_ref[fp]]
    ELSE LET c == rm.counter + 1
             ref == RefName(c)
         IN  [rm |-> [counter |-> c,
                      fp_to_ref |-> [x \in DOMAIN rm.fp_to_ref \cup {fp} |->
                                        IF x = fp THEN ref ELSE rm.fp_to_ref[x]],
                      ref_to_fp |-> [x \in DOMAIN rm.ref_to_fp \cup {ref} |->
                                        IF x = ref THEN fp ELSE rm.ref_to_fp[x]]],
              ref |-> ref]

LookupByCounter(rm, ref) ==
    IF ref \in DOMAIN rm.ref_to_fp /\ ref = RefName(rm.counter)
    THEN rm.ref_to_fp[ref] ELSE NoneTuple

\* RefManager.lookup
Lookup(rm, ref) == IF ref \in DOMAIN rm.ref_to_fp THEN rm.ref_to_fp[ref] ELSE NoneTuple

RefManagerResetKeepsCounter(rm) ==
    [counter |-> rm.counter, fp_to_ref |-> EmptyMap, ref_to_fp |-> EmptyMap]

\* RefManager.reset
RefManagerReset(rm) ==
    [counter |-> 0, fp_to_ref |-> EmptyMap, ref_to_fp |-> EmptyMap]

(***************************************************************************)
(* extractors/*.py: _convert_node of the four extractors                   *)
(***************************************************************************)
\* The snapshot handed to _convert_node: `snapshot or {}`; the empty dict
\* has no role and no name, so raw.get supplies "generic" and "".
RawOrEmpty(tree) ==
    IF tree = <<>> THEN <<RawNode("generic", "", "", 0)>> ELSE tree

ParentRole(tree, i) == IF tree[i].parent = 0 THEN "" ELSE tree[tree[i].parent].role

\* The StateNode one extractor builds from a raw node and its ref.
MakeStateNode(rep, raw, ref) ==
    [ref |-> ref, role |-> raw.role, name |-> raw.name, value |-> raw.value,
     checked |-> raw.checked, expanded |-> raw.expanded, disabled |-> raw.disabled,
     focused |-> IF rep \in {A11Y_TREE, HYBRID} THEN raw.focused ELSE FALSE,
     live |-> IF rep \in {A11Y_TREE, HYBRID} THEN raw.live ELSE "",
     parent |-> raw.parent]

\* _convert_node visits the nodes depth-first, that is in sequence order,
\* asking the shared RefManager for a ref at every node.
RECURSIVE ConvertFrom(_, _, _, _, _)
ConvertFrom(rep, raw, i, rm, acc) ==
    IF i > Len(raw) THEN [rm |-> rm, root |-> acc]
    ELSE LET got == GetOrCreate(rm, <<raw[i].role, raw[i].name, ParentRole(raw, i)>>)
         IN  ConvertFrom(rep, raw, i + 1, got.rm,
                         Append(acc, MakeStateNode(rep, raw[i], got.ref)))

ConvertNode(rep, tree, rm) == ConvertFrom(rep, RawOrEmpty(tree), 1, rm, <<>>)

\* HybridExtractor._capture_visual_regions: what the canvas query counted,
\* and whether the clipped and the viewport screenshot succeed.  Only the
\* clipped screenshot is guarded; a failing viewport screenshot raises.
CaptureVisualRegions(boxes, clip_ok, viewport_ok) ==
    IF boxes = 0 THEN [raised |-> FALSE, shot |-> None, via |-> "none"]
    ELSE IF boxes = 1 /\ clip_ok THEN [raised |-> FALSE, shot |-> "b64", via |-> "clip"]
    ELSE IF viewport_ok THEN [raised |-> FALSE, shot |-> "b64", via |-> "viewport"]
    ELSE [raised |-> TRUE, shot |-> None, via |-> "none"]

\* HybridExtractor.extract: the tree is converted, then the visual regions
\* are captured, then the PageState is built.
HybridExtract(url, tree, boxes, clip_ok, viewport_ok, rm) ==
    LET conv == ConvertNode(HYBRID, tree, rm)
        shot == CaptureVisualRegions(boxes, clip_ok, viewport_ok)
    IN  [raised |-> shot.raised,
         via |-> shot.via,
         rm |-> conv.rm,
         state |-> IF shot.raised THEN NoneRec
                   ELSE [url |-> url, title |-> "T", representation_type |-> HYBRID,
                         root |-> conv.root, screenshot_b64 |-> shot.shot, step |-> 0]]

(***************************************************************************)
(* String helpers.                                                         *)
(***************************************************************************)
UpperLetters == <<"A", "B", "C", "D", "E", "F", "G", "H", "I", "J", "K", "L", "M",
                  "N", "O", "P", "Q", "R", "S", "T", "U", "V", "W", "X", "Y", "Z">>
LowerLetters == <<"a", "b", "c", "d", "e", "f", "g", "h", "i", "j", "k", "l", "m",
                  "n", "o", "p", "q", "r", "s", "t", "u", "v", "w", "x", "y", "z">>

LowerChar(c) ==
    IF \E k \in 1..26 : UpperLetters[k] = c
    THEN LowerLetters[CHOOSE k \in 1..26 : UpperLetters[k] = c]
    ELSE c

RECURSIVE LowerFrom(_, _)
LowerFrom(s, i) == IF i > Len(s) THEN "" ELSE LowerChar(SubSeq(s, i, i)) \o LowerFrom(s, i + 1)

\* str.lower()
Lower(s) == LowerFrom(s, 1)

\* `p in s`
Contains(s, p) == \E i \in 1..(Len(s) - Len(p) + 1) : SubSeq(s, i, i + Len(p) - 1) = p

(***************************************************************************)
(* router/signals.py                                                       *)
(***************************************************************************)
PAGE_TYPE_PATTERNS ==
    << <<"form", <<"/login", "/signup", "/register", "/checkout", "/contact", "/form">> >>,
       <<"dashboard", <<"/dashboard", "/admin", "/analytics", "/metrics", "/stats">> >>,
       <<"article", <<"/article", "/blog", "/post", "/news", "/wiki">> >>,
       <<"search", <<"/search", "/results", "/find", "/query">> >> >>

\* SignalExtractor._classify_page_type
ClassifyPageType(url) ==
    LET path == Lower(url.path)
        hits == {k \in 1..Len(PAGE_TYPE_PATTERNS) :
                    \E p \in Range(PAGE_TYPE_PATTERNS[k][2]) : Contains(path, p)}
    IN  IF hits = {} THEN "unknown"
        ELSE PAGE_TYPE_PATTERNS[CHOOSE k \in hits : \A j \in hits : k <= j][1]

\* SignalExtractor._compute_a11y_coverage, in percent: min(named / total, 1.0)
ComputeA11yCoverage(dom) ==
    IF dom.interactiveCount = 0 THEN 100
    ELSE Min((dom.namedCount * 100) \div dom.interactiveCount, 100)

\* SignalExtractor.extract
ExtractSignals(page) ==
    [url |-> page.url,
     has_canvas |-> page.dom.hasCanvas,
     has_webgl |-> page.dom.hasWebGL,
     a11y_coverage |-> ComputeA11yCoverage(page.dom),
     dom_node_count |-> page.dom.nodeCount,
     dom_max_depth |-> page.dom.maxDepth,
     page_type |-> ClassifyPageType(page.url)]

(***************************************************************************)
(* router/strategies.py                                                    *)
(***************************************************************************)
StrategySelectLooseCanvas(signals) ==
    IF signals.has_canvas \/ (signals.has_webgl /\ signals.a11y_coverage < 50) THEN HYBRID
    ELSE IF signals.a11y_coverage >= 80 THEN A11Y_TREE
    ELSE IF signals.dom_node_count < 2000 /\ signals.a11y_coverage >= 50 THEN DISTILLED_DOM
    ELSE IF signals.a11y_coverage >= 30 THEN HYBRID
    ELSE VISION

\* RepresentationStrategy.select (coverage in percent)
StrategySelect(signals) ==
    IF (signals.has_canvas \/ signals.has_webgl) /\ signals.a11y_coverage < 50 THEN HYBRID
    ELSE IF signals.a11y_coverage >= 80 THEN A11Y_TREE
    ELSE IF signals.dom_node_count < 2000 /\ signals.a11y_coverage >= 50 THEN DISTILLED_DOM
    ELSE IF signals.a11y_coverage >= 30 THEN HYBRID
    ELSE VISION

(***************************************************************************)
(* router/router.py                                                        *)
(***************************************************************************)
CACHE_TTL == 60

\* AdaptiveRouter._origin
Origin(url) == url.scheme \o "://" \o url.netloc

CacheHitInclusive(cache, page, now) ==
    /\ Origin(page.url) \in DOMAIN cache
    /\ now - cache[Origin(page.url)].ts <= CACHE_TTL

\* The cache lookup of _get_signals: a live entry of the page's origin.
CacheHit(cache, page, now) ==
    /\ Origin(page.url) \in DOMAIN cache
    /\ now - cache[Origin(page.url)].ts < CACHE_TTL

\* AdaptiveRouter._get_signals: the cache after the call and the signals returned.
GetSignals(cache, page, now) ==
    LET origin == Origin(page.url)
    IN  IF CacheHit(cache, page, now)
        THEN LET hit == [cache[origin].signals EXCEPT !.url = page.url]
             IN  [cache |-> [cache EXCEPT ![origin] = [signals |-> hit, ts |-> @.ts]],
                  signals |-> hit]
        ELSE LET signals == ExtractSignals(page)
             IN  [cache |-> [o \in DOMAIN cache \cup {origin} |->
                                IF o = origin THEN [signals |-> signals, ts |-> now]
                                ELSE cache[o]],
                  signals |-> signals]

\* The override callables the model configures: none, or one that answers
\* VISION whatever the signals.
ApplyOverride(override, signals) == VISION

\* AdaptiveRouter.select
RouterSelect(override, cache, page, now) ==
    LET got == GetSignals(cache, page, now)
    IN  [cache |-> got.cache,
         rep_type |-> IF override /= None THEN ApplyOverride(override, got.signals)
                      ELSE StrategySelect(got.signals)]

InvalidateCacheWholesale(cache, url) == EmptyMap

\* AdaptiveRouter.invalidate_cache: clear() without a url, otherwise
\* pop(origin, None).
InvalidateCache(cache, url) ==
    IF url = NoneRec THEN EmptyMap
    ELSE [o \in DOMAIN cache \ {Origin(url)} |-> cache[o]]

(***************************************************************************)
(* Trees of StateNode (core/types.py), kept as pre-order sequences.        *)
(* A StateNode object, which owns its children, is the pre-order sequence  *)
(* of its subtree; its own fields are those of the first element.          *)
(***************************************************************************)
RECURSIVE IsAncestor(_, _, _)
IsAncestor(tree, a, k) ==
    IF k = 0 THEN FALSE
    ELSE IF tree[k].parent = a THEN TRUE
    ELSE IsAncestor(tree, a, tree[k].parent)

SubtreeEnd(tree, i) ==
    CHOOSE j \in i..Len(tree) :
        /\ \A k \in (i + 1)..j : IsAncestor(tree, i, k)
        /\ (j < Len(tree) => ~IsAncestor(tree, i, j + 1))

\* The StateNode at index i with the nodes below it.
Subtree(tree, i) ==
    LET e == SubtreeEnd(tree, i)
    IN  [k \in 1..(e - i + 1) |->
            [tree[i + k - 1] EXCEPT !.parent = IF k = 1 THEN 0 ELSE @ - (i - 1)]]

ChildIndices(tree, i) == {k \in 1..Len(tree) : tree[k].parent = i}

\* PageState.flat_nodes
FlatNodes(state) == state.root

(***************************************************************************)
(* differ/tree_diff.py                                                     *)
(***************************************************************************)
COMPARED_PROPS == <<"value", "checked", "expanded", "disabled", "focused", "live">>

PropTruthy(node, prop) ==
    CASE prop = "value" -> node.value
      [] prop = "checked" -> IF node.checked = "unset" THEN "false" ELSE node.checked
      [] prop = "expanded" -> IF node.expanded = "unset" THEN "false" ELSE node.expanded
      [] prop = "disabled" -> node.disabled
      [] prop = "focused" -> node.focused
      [] prop = "live" -> node.live

Prop(node, prop) ==
    CASE prop = "value" -> node.value
      [] prop = "checked" -> node.checked
      [] prop = "expanded" -> node.expanded
      [] prop = "disabled" -> node.disabled
      [] prop = "focused" -> node.focused
      [] prop = "live" -> node.live

\* _compare_props: the differing properties, each with (old, new)
CompareProps(old, new) ==
    [prop \in {q \in Range(COMPARED_PROPS) : Prop(old, q) /= Prop(new, q)} |->
        <<Prop(old, prop), Prop(new, prop)>>]

\* The keys of the dict _walk fills, in insertion order: a ref keeps the
\* position of its first occurrence.
RECURSIVE RefOrder(_, _, _)
RefOrder(tree, i, acc) ==
    IF i > Len(tree) THEN acc
    ELSE RefOrder(tree, i + 1,
                  IF tree[i].ref \in Range(acc) THEN acc ELSE Append(acc, tree[i].ref))

IndexNodesShallow(tree) ==
    LET top == {i \in 1..Len(tree) : tree[i].parent \in {0, 1}}
        seen == SelectSeq([i \in 1..Len(tree) |-> IF i \in top THEN tree[i].ref ELSE None],
                          LAMBDA r : r /= None)
    IN  [order |-> seen,
         at |-> [r \in Range(seen) |->
                    LET i == CHOOSE k \in top : tree[k].ref = r
                    IN  [node |-> Subtree(tree, i), parent_role |-> ParentRole(tree, i)]]]

\* _index_nodes / _walk: ref -> (node, parent_role); a ref met again
\* overwrites the earlier entry.
IndexNodes(tree) ==
    LET last(r) == CHOOSE i \in 1..Len(tree) :
                      /\ tree[i].ref = r
                      /\ \A j \in 1..Len(tree) : tree[j].ref = r => j <= i
    IN  [order |-> RefOrder(tree, 1, <<>>),
         at |-> [r \in {tree[i].ref : i \in 1..Len(tree)} |->
                    [node |-> Subtree(tree, last(r)),
                     parent_role |-> ParentRole(tree, last(r))]]]

\* _find_by_fingerprint: the first old ref, in index order, that is not yet
\* matched and has the fingerprint; None when there is none.
FindByFingerprint(fp, old_nodes, already_matched) ==
    LET hits == {k \in 1..Len(old_nodes.order) :
                    LET ref == old_nodes.order[k]
                        e == old_nodes.at[ref]
                    IN  /\ ref \notin already_matched
                        /\ e.node[1].role = fp[1]
                        /\ e.node[1].name = fp[2]
                        /\ e.parent_role = fp[3]}
    IN  IF hits = {} THEN None
        ELSE old_nodes.order[CHOOSE k \in hits : \A j \in hits : k <= j]

NodeChange(ref, node, props) ==
    [ref |-> ref, role |-> node.role, name |-> node.name, changed_props |-> props]

\* added, changed and matched_old_refs before the loop of diff_trees; pairs
\* records which old ref each new ref was matched to (history only).
NothingMatched == [added |-> <<>>, changed |-> <<>>, matched |-> {}, pairs |-> {}]

\* The loop of diff_trees over the new index.
RECURSIVE DiffLoop(_, _, _, _)
DiffLoop(old_nodes, new_nodes, k, acc) ==
    IF k > Len(new_nodes.order) THEN acc
    ELSE
      LET new_ref == new_nodes.order[k]
          new_node == new_nodes.at[new_ref].node
          new_parent_role == new_nodes.at[new_ref].parent_role
      IN  IF new_ref \in DOMAIN old_nodes.at
          THEN LET props_diff == CompareProps(old_nodes.at[new_ref].node[1], new_node[1])
               IN  DiffLoop(old_nodes, new_nodes, k + 1,
                     [acc EXCEPT
                        !.matched = @ \cup {new_ref},
                        !.pairs = @ \cup {<<new_ref, new_ref>>},
                        !.changed = IF DOMAIN props_diff /= {}
                                    THEN Append(@, NodeChange(new_ref, new_node[1], props_diff))
                                    ELSE @])
          ELSE LET fp == <<new_node[1].role, new_node[1].name, new_parent_role>>
                   old_ref == FindByFingerprint(fp, old_nodes, acc.matched)
               IN  IF old_ref /= None
                   THEN LET props_diff == CompareProps(old_nodes.at[old_ref].node[1], new_node[1])
                        IN  DiffLoop(old_nodes, new_nodes, k + 1,
                              [acc EXCEPT
                                 !.matched = @ \cup {old_ref},
                                 !.pairs = @ \cup {<<new_ref, old_ref>>},
                                 !.changed = IF DOMAIN props_diff /= {}
                                             THEN Append(@, NodeChange(new_ref, new_node[1], props_diff))
                                             ELSE @])
                   ELSE DiffLoop(old_nodes, new_nodes, k + 1,
                              [acc EXCEPT !.added = Append(@, new_node)])

\* Delta (core/types.py)
Delta(step, added, removed, changed, unchanged_count, is_full_state, rep_type) ==
    [step |-> step, added |-> added, removed |-> removed, changed |-> changed,
     unchanged_count |-> unchanged_count, unchanged_summary |-> "",
     is_full_state |-> is_full_state, representation_type |-> rep_type]

\* Delta.total_changes
TotalChanges(delta) == Len(delta.added) + Len(delta.removed) + Len(delta.changed)

\* diff_trees
DiffTrees(old_root, new_root, step, rep_type) ==
    LET old_nodes == IndexNodes(old_root)
        new_nodes == IndexNodes(new_root)
        done == DiffLoop(old_nodes, new_nodes, 1, NothingMatched)
        unmatched == SelectSeq(old_nodes.order, LAMBDA r : r \notin done.matched)
        removed == [k \in 1..Len(unmatched) |-> old_nodes.at[unmatched[k]].node]
        unchanged_count == Len(new_nodes.order) - Len(done.added) - Len(done.changed)
    IN  Delta(step, done.added, removed, done.changed, Max(unchanged_count, 0),
              FALSE, rep_type)

(***************************************************************************)
(* differ/semantic_filter.py                                               *)
(***************************************************************************)
Digits == {"0", "1", "2", "3", "4", "5", "6", "7", "8", "9"}
Whitespace == {" ", "\t", "\n", "\r"}

\* \d* and \s* over a whole string
IsDigits(s) == \A i \in 1..Len(s) : SubSeq(s, i, i) \in Digits
IsSpaces(s) == \A i \in 1..Len(s) : SubSeq(s, i, i) \in Whitespace

\* str.strip()
Strip(s) ==
    LET keep == {i \in 1..Len(s) : SubSeq(s, i, i) \notin Whitespace}
    IN  IF keep = {} THEN ""
        ELSE SubSeq(s, CHOOSE i \in keep : \A j \in keep : i <= j,
                       CHOOSE i \in keep : \A j \in keep : j <= i)

\* ^\d{1,2}:\d{2}(:\d{2})?$
MatchClock(t) ==
    \E h \in {1, 2} :
        /\ Len(t) \in {h + 3, h + 6}
        /\ IsDigits(SubSeq(t, 1, h))
        /\ SubSeq(t, h + 1, h + 1) = ":"
        /\ IsDigits(SubSeq(t, h + 2, h + 3))
        /\ Len(t) = h + 6 => (SubSeq(t, h + 4, h + 4) = ":" /\ IsDigits(SubSeq(t, h + 5, h + 6)))

AgoUnits == {"second", "minute", "hour", "sec", "min"}

\* ^\d+\s*(second|minute|hour|sec|min)s?\s*ago$, ignoring case
MatchAgo(t) ==
    LET l == Lower(t)
        n == Len(l)
    IN  \E a \in 1..n : \E b \in a..n : \E u \in AgoUnits : \E plural \in {"", "s"} :
            LET word == u \o plural
                c == b + Len(word)
            IN  /\ IsDigits(SubSeq(l, 1, a))
                /\ IsSpaces(SubSeq(l, a + 1, b))
                /\ c + 3 <= n
                /\ SubSeq(l, b + 1, c) = word
                /\ IsSpaces(SubSeq(l, c + 1, n - 3))
                /\ SubSeq(l, n - 2, n) = "ago"

\* ^(just now|moments ago)$, ignoring case
MatchJustNow(t) == Lower(t) \in {"just now", "moments ago"}

\* ^\d{1,3}%$
MatchPercent(t) ==
    /\ Len(t) \in 2..4
    /\ IsDigits(SubSeq(t, 1, Len(t) - 1))
    /\ SubSeq(t, Len(t), Len(t)) = "%"

\* SemanticFilter._is_timer_text
IsTimerText(text) ==
    LET t == Strip(text)
    IN  MatchClock(t) \/ MatchAgo(t) \/ MatchJustNow(t) \/ MatchPercent(t)

AD_HINTS == {"advertisement", "sponsored", "promoted", "ad choice", "ad by"}

\* _AD_HINTS.search(name)
AdHintsSearch(name) == \E h \in AD_HINTS : Contains(Lower(name), h)

NOISY_LIVE_ROLES == {"status", "timer", "marquee", "log"}

IsNoisyNodeAnyRole(node) ==
    \/ AdHintsSearch(node[1].name)
    \/ IsTimerText(node[1].name)
    \/ node[1].live /= "" /\ node[1].role \in NOISY_LIVE_ROLES

\* SemanticFilter._is_noisy_node
IsNoisyNode(node) ==
    \/ AdHintsSearch(node[1].name)
    \/ node[1].role \in {"text", "StaticText", "generic"} /\ IsTimerText(node[1].name)
    \/ node[1].live /= "" /\ node[1].role \in NOISY_LIVE_ROLES

IsNoisyChangeAnyValue(change) ==
    \/ AdHintsSearch(change.name)
    \/ /\ "value" \in DOMAIN change.changed_props
       /\ IsTimerText(change.changed_props["value"][2])

\* SemanticFilter._is_noisy_change
IsNoisyChange(change) ==
    \/ AdHintsSearch(change.name)
    \/ /\ DOMAIN change.changed_props = {"value"}
       /\ IsTimerText(change.changed_props["value"][2])

FilterSkipsFirst(delta) ==
    [delta EXCEPT
        !.added = SelectSeq(@, LAMBDA n : ~IsNoisyNode(n)),
        !.removed = SelectSeq(@, LAMBDA n : ~IsNoisyNode(n)),
        !.changed = IF @ = <<>> THEN @ ELSE SelectSeq(Tail(@), LAMBDA c : ~IsNoisyChange(c))]

FilterRecounts(delta) ==
    [delta EXCEPT
        !.added = SelectSeq(@, LAMBDA n : ~IsNoisyNode(n)),
        !.removed = SelectSeq(@, LAMBDA n : ~IsNoisyNode(n)),
        !.changed = SelectSeq(@, LAMBDA c : ~IsNoisyChange(c)),
        !.unchanged_count = @ + Len(SelectSeq(delta.added, IsNoisyNode))
                              + Len(SelectSeq(delta.changed, IsNoisyChange))]

\* SemanticFilter.filter
Filter(delta) ==
    [delta EXCEPT
        !.added = SelectSeq(@, LAMBDA n : ~IsNoisyNode(n)),
        !.removed = SelectSeq(@, LAMBDA n : ~IsNoisyNode(n)),
        !.changed = SelectSeq(@, LAMBDA c : ~IsNoisyChange(c))]

(***************************************************************************)
(* differ/differ.py                                                        *)
(***************************************************************************)
\* _subtree_has_refs
SubtreeHasRefs(node, refs) == \E k \in 1..Len(node) : node[k].ref \in refs

\* _count_leaves
CountLeaves(node) == Cardinality({k \in 1..Len(node) : ChildIndices(node, k) = {}})

RECURSIVE Join(_, _)
Join(parts, sep) ==
    IF Len(parts) = 0 THEN ""
    ELSE IF Len(parts) = 1 THEN parts[1]
    ELSE parts[1] \o sep \o Join(Tail(parts), sep)

\* sorted(S) for a set of integers
RECURSIVE SortedSeq(_)
SortedSeq(S) ==
    IF S = {} THEN <<>>
    ELSE LET m == CHOOSE x \in S : \A y \in S : x <= y
         IN  <<m>> \o SortedSeq(S \ {m})

\* StateDiffer._summarize_unchanged
SummarizeUnchanged(root, delta) ==
    IF delta.unchanged_count = 0 THEN ""
    ELSE
      LET noisy_refs == {delta.changed[k].ref : k \in 1..Len(delta.changed)}
                        \cup {delta.added[k][1].ref : k \in 1..Len(delta.added)}
                        \cup {delta.removed[k][1].ref : k \in 1..Len(delta.removed)}
          children == SortedSeq(ChildIndices(root, 1))
          stable == SelectSeq(children,
                              LAMBDA c : ~SubtreeHasRefs(Subtree(root, c), noisy_refs))
          label(c) == LET child == Subtree(root, c)
                          text == IF child[1].name /= "" THEN child[1].name ELSE child[1].role
                          count == CountLeaves(child)
                      IN  IF count > 1 THEN text \o " (" \o ToString(count) \o " items)"
                          ELSE text
          stable_landmarks == [k \in 1..Len(stable) |-> label(stable[k])]
      IN  IF Len(stable_landmarks) > 0
          THEN Join(SubSeq(stable_landmarks, 1, Min(5, Len(stable_landmarks))), ", ")
               \o (IF Len(stable_landmarks) > 5
                   THEN " and " \o ToString(Len(stable_landmarks) - 5) \o " more"
                   ELSE "")
               \o " - unchanged"
          ELSE ToString(delta.unchanged_count) \o " nodes unchanged"

FullStateDeltaCountsRefs(current) ==
    Delta(current.step, <<>>, <<>>, <<>>,
          Cardinality({current.root[i].ref : i \in 1..Len(current.root)}), TRUE,
          current.representation_type)

\* The Delta both StateDiffer.diff (no previous state) and
\* StateDiffer.force_full_state build.
FullStateDelta(current) ==
    Delta(current.step, <<>>, <<>>, <<>>, Len(FlatNodes(current)), TRUE,
          current.representation_type)

\* StateDiffer.diff: the store after the call and the Delta returned.
DifferDiff(previous, current) ==
    [store |-> current,
     delta |-> IF previous = NoneRec THEN FullStateDelta(current)
               ELSE LET filtered == Filter(DiffTrees(previous.root, current.root, current.step,
                                                     current.representation_type))
                    IN  [filtered EXCEPT
                            !.unchanged_summary = SummarizeUnchanged(current.root, filtered)]]

\* StateDiffer.get_previous_url
GetPreviousUrl(previous) == IF previous = NoneRec THEN NoneRec ELSE previous.url

\* StateDiffer.force_full_state
ForceFullState(previous, current) ==
    [store |-> current, delta |-> FullStateDelta(current)]

(***************************************************************************)
(* formatter/token_budget.py, the character heuristic (tiktoken absent)    *)
(***************************************************************************)
CHARS_PER_TOKEN == 4

TRUNCATION_SUFFIX == "\n[... truncated to fit token budget ...]"

\* TokenBudget.count
Count(text) == Max(1, Len(text) \div CHARS_PER_TOKEN)

TruncateKeepsOneMore(text, max_tokens) ==
    IF Count(text) <= max_tokens
    THEN [text |-> text, was_truncated |-> FALSE]
    ELSE [text |-> SubSeq(text, 1, Min((max_tokens + 1) * CHARS_PER_TOKEN, Len(text)))
                   \o TRUNCATION_SUFFIX,
          was_truncated |-> TRUE]

\* TokenBudget.truncate
Truncate(text, max_tokens) ==
    IF Count(text) <= max_tokens
    THEN [text |-> text, was_truncated |-> FALSE]
    ELSE [text |-> SubSeq(text, 1, Min(max_tokens * CHARS_PER_TOKEN, Len(text)))
                   \o TRUNCATION_SUFFIX,
          was_truncated |-> TRUE]

\* TokenBudget.fits
Fits(text, max_tokens) == Count(text) <= max_tokens

(***************************************************************************)
(* formatter/formatter.py                                                  *)
(***************************************************************************)
INDENT == "  "

RECURSIVE Repeat(_, _)
Repeat(s, n) == IF n <= 0 THEN "" ELSE s \o Repeat(s, n - 1)

RECURSIVE Depth(_, _)
Depth(tree, i) == IF tree[i].parent = 0 THEN 0 ELSE 1 + Depth(tree, tree[i].parent)

\* str() of a bool / Optional[bool]
PyBool(b) == IF b THEN "True" ELSE "False"
PyTri(t) == CASE t = "unset" -> "None" [] t = "true" -> "True" [] t = "false" -> "False"

\* repr() of a property value
PyRepr(prop, v) ==
    CASE prop \in {"value", "live"} -> "'" \o v \o "'"
      [] prop \in {"checked", "expanded"} -> PyTri(v)
      [] prop \in {"disabled", "focused"} -> PyBool(v)

\* The line _render_node prints for one node at one depth.
RenderLine(n, depth) ==
    LET parts == <<n.role>> \o (IF n.name /= "" THEN <<"\"" \o n.name \o "\"">> ELSE <<>>)
        props == (IF n.value /= "" THEN <<"value: " \o PyRepr("value", n.value)>> ELSE <<>>)
                 \o (IF n.checked /= "unset" THEN <<"checked: " \o PyTri(n.checked)>> ELSE <<>>)
                 \o (IF n.expanded /= "unset" THEN <<"expanded: " \o PyTri(n.expanded)>> ELSE <<>>)
                 \o (IF n.disabled THEN <<"disabled">> ELSE <<>>)
                 \o (IF n.focused THEN <<"focused">> ELSE <<>>)
        prop_str == IF Len(props) > 0 THEN " (" \o Join(props, ", ") \o ")" ELSE ""
    IN  Repeat(INDENT, depth) \o "- " \o Join(parts, " ") \o " [" \o n.ref \o "]" \o prop_str

\* OutputFormatter._render_node: the node's line, then its children's,
\* depth-first, one indent deeper per level.
RenderNode(node, depth) == [k \in 1..Len(node) |-> RenderLine(node[k], depth + Depth(node, k))]

\* OutputFormatter._format_full
FormatFull(state) ==
    Join(<<"[FULL PAGE STATE - step " \o ToString(state.step) \o "]",
           "URL: " \o UrlStr(state.url),
           "Title: " \o state.title,
           "Representation: " \o state.representation_type,
           "">>
         \o RenderNode(state.root, 0)
         \o (IF state.screenshot_b64 /= None THEN <<"", "[VISUAL: screenshot attached]">>
             ELSE <<>>),
         "\n")

\* OutputFormatter._render_change
RenderChange(change) ==
    LET name_str == IF change.name /= "" THEN " \"" \o change.name \o "\"" ELSE ""
        keys == SelectSeq(COMPARED_PROPS, LAMBDA q : q \in DOMAIN change.changed_props)
        prop_parts == [k \in 1..Len(keys) |->
                          keys[k] \o ": " \o PyRepr(keys[k], change.changed_props[keys[k]][1])
                          \o " > " \o PyRepr(keys[k], change.changed_props[keys[k]][2])]
    IN  "  - " \o change.role \o name_str \o " [" \o change.ref \o "] - "
        \o Join(prop_parts, ", ")

RECURSIVE Flatten(_)
Flatten(seqs) == IF Len(seqs) = 0 THEN <<>> ELSE seqs[1] \o Flatten(Tail(seqs))

\* OutputFormatter._format_delta
FormatDelta(delta, state) ==
    LET total == TotalChanges(delta)
        added_lines ==
            Flatten([k \in 1..Len(delta.added) |->
                        LET lines == RenderNode(delta.added[k], 0)
                        IN  [j \in 1..Len(lines) |-> "  " \o lines[j]]])
        removed_lines ==
            [k \in 1..Len(delta.removed) |->
                LET node == delta.removed[k][1]
                IN  "  - " \o node.role
                    \o (IF node.name /= "" THEN " \"" \o node.name \o "\"" ELSE "")
                    \o " [" \o node.ref \o "]"]
        changed_lines == [k \in 1..Len(delta.changed) |-> RenderChange(delta.changed[k])]
    IN  Join(<<"[DELTA - step " \o ToString(state.step) \o " - " \o ToString(total)
               \o " change" \o (IF total /= 1 THEN "s" ELSE "") \o "]",
               "URL: " \o UrlStr(state.url),
               "">>
             \o (IF Len(delta.added) > 0 THEN <<"ADDED:">> \o added_lines ELSE <<>>)
             \o (IF Len(delta.removed) > 0 THEN <<"REMOVED:">> \o removed_lines ELSE <<>>)
             \o (IF Len(delta.changed) > 0 THEN <<"CHANGED:">> \o changed_lines ELSE <<>>)
             \o (IF delta.unchanged_summary /= ""
                 THEN <<"UNCHANGED: " \o delta.unchanged_summary>> ELSE <<>>)
             \o (IF state.screenshot_b64 /= None THEN <<"", "[VISUAL: screenshot attached]">>
                 ELSE <<>>),
             "\n")

\* OutputFormatter.format: (formatted_text, token_count)
Format(state, delta, max_tokens) ==
    LET text == IF delta = NoneRec \/ delta.is_full_state THEN FormatFull(state)
                ELSE FormatDelta(delta, state)
        cut == Truncate(text, max_tokens).text
    IN  [text |-> cut, token_count |-> Count(cut)]

(***************************************************************************)
(* core/lens.py: BrowserLens                                               *)
(***************************************************************************)
VARIABLES
    cfg,        \* the constructor options
    step,       \* BrowserLens._step
    refs,       \* the RefManager: counter, fp_to_ref, ref_to_fp
    previous,   \* SnapshotStore._previous
    cache,      \* AdaptiveRouter._cache: origin -> (signals, timestamp)
    now,        \* time.monotonic(), in seconds
    pc,         \* where the observe() call in progress is suspended
    cur,        \* the locals of the observe() call in progress
    out,        \* how the last observe() call ended
    pre,        \* RefManager and store as they were when the call in progress began
    resetOf,    \* what the last reset() found: step, ref counter, a stored snapshot
    issued,     \* every (fingerprint, ref) stamped on a node since the last reset
    completed,  \* the page state of the last observe() that returned a result
    lastOp,     \* the last operation called on the Observer
    signals,    \* the PageSignals handed to RepresentationStrategy.select
    chosen,     \* what RepresentationStrategy.select returned for them
    arg,        \* the arguments handed to a function applied on its own
    ret         \* what that function returned for them

vars == <<cfg, step, refs, previous, cache, now, pc, cur, out, pre, resetOf, issued,
          completed, lastOp, signals, chosen, arg, ret>>

lensVars == <<cfg, step, refs, previous, cache, now, pc, cur, out, pre, resetOf, issued,
              completed, lastOp>>

Config(budget, diffing, routing, force, override) ==
    [token_budget |-> budget, enable_diffing |-> diffing, enable_routing |-> routing,
     force_representation |-> force, router_override |-> override]

DEFAULT_TOKEN_BUDGET == 4096

Configs ==
    {Config(DEFAULT_TOKEN_BUDGET, TRUE, TRUE, None, None),
     Config(DEFAULT_TOKEN_BUDGET, FALSE, TRUE, None, None),
     Config(DEFAULT_TOKEN_BUDGET, TRUE, TRUE, DISTILLED_DOM, None),
     Config(DEFAULT_TOKEN_BUDGET, TRUE, TRUE, None, "always_vision"),
     Config(8, TRUE, FALSE, None, None)}

\* The clock is read once per time-to-live of the cache.
TickSeconds == CACHE_TTL

NoCall == [url |-> NoneRec, rep_type |-> None, root |-> <<>>, screenshot_b64 |-> None]
NoOut == [error |-> "", result |-> NoneRec]
NoPre == [refs |-> NewRefManager, previous |-> NoneRec]
NoReset == [step |-> 0, counter |-> 0, stored |-> FALSE]

\* BrowserLens.__init__
LensInit ==
    /\ cfg \in Configs
    /\ step = 0
    /\ refs = NewRefManager
    /\ previous = NoneRec
    /\ cache = EmptyMap
    /\ now = 0
    /\ pc = "idle"
    /\ cur = NoCall
    /\ out = NoOut
    /\ pre = NoPre
    /\ resetOf = NoReset
    /\ issued = {}
    /\ completed = NoneRec
    /\ lastOp = "init"

Init ==
    /\ LensInit
    /\ signals = NoneRec
    /\ chosen = None
    /\ arg = NoneRec
    /\ ret = NoneRec

\* The clock moves on.
Tick ==
    /\ now < MaxTicks * TickSeconds
    /\ now' = now + TickSeconds
    /\ UNCHANGED <<cfg, step, refs, previous, cache, pc, cur, out, pre, resetOf, issued,
                   completed, lastOp, signals, chosen, arg, ret>>

\* observe(), up to the choice of the representation: the step counter is
\* incremented, then the router is awaited unless a representation is forced
\* or routing is off.
ObserveStart(url) ==
    /\ pc = "idle"
    /\ step < MaxStep
    /\ step' = step + 1
    /\ cur' = [NoCall EXCEPT !.url = url]
    /\ pc' = "route"
    /\ pre' = [refs |-> refs, previous |-> previous]
    /\ out' = NoOut
    /\ lastOp' = "observe"
    /\ resetOf' = NoReset
    /\ UNCHANGED <<cfg, refs, previous, cache, now, issued, completed, signals, chosen, arg, ret>>

\* Whether choosing the representation queries the page (signal extraction).
RouterQueriesPage ==
    /\ cfg.force_representation = None
    /\ cfg.enable_routing
    /\ ~CacheHit(cache, [url |-> cur.url], now)

\* Layer 1 of observe(): choose the representation type.
Route(dom) ==
    /\ pc = "route"
    /\ LET page == [url |-> cur.url, dom |-> dom]
           routed == IF cfg.force_representation /= None
                     THEN [cache |-> cache, rep_type |-> cfg.force_representation]
                     ELSE IF cfg.enable_routing
                     THEN RouterSelect(cfg.router_override, cache, page, now)
                     ELSE [cache |-> cache, rep_type |-> A11Y_TREE]
       IN  /\ cache' = routed.cache
           /\ cur' = [cur EXCEPT !.rep_type = routed.rep_type]
    /\ pc' = "snapshot"
    /\ UNCHANGED <<cfg, step, refs, previous, now, out, pre, resetOf, issued, completed, lastOp,
                   signals, chosen, arg, ret>>

\* The (fingerprint, ref) pairs a tree carries, read off its nodes.
Stamps(root) ==
    {<< <<root[i].role, root[i].name, ParentRole(root, i)>>, root[i].ref >> :
        i \in 1..Len(root)}

\* extract(), up to the conversion of the tree: the page answers the tree
\* query (after the screenshot, for the vision extractor) and _convert_node
\* stamps every node through the shared RefManager.
Extract(tree) ==
    /\ pc = "snapshot"
    /\ LET conv == ConvertNode(cur.rep_type, tree, refs)
       IN  /\ refs' = conv.rm
           /\ cur' = [cur EXCEPT !.root = conv.root,
                                 !.screenshot_b64 = IF cur.rep_type = VISION THEN "b64" ELSE None]
           /\ issued' = issued \cup Stamps(conv.root)
    /\ pc' = "title"
    /\ UNCHANGED <<cfg, step, previous, cache, now, out, pre, resetOf, completed, lastOp,
                   signals, chosen, arg, ret>>

\* A page query that observe() awaits raises, or the call is cancelled
\* while it waits: the exception leaves observe() at once.
Fail ==
    /\ \/ pc = "route" /\ RouterQueriesPage
       \/ pc \in {"snapshot", "title"}
    /\ pc' = "idle"
    /\ cur' = NoCall
    /\ out' = [error |-> "PageError", result |-> NoneRec]
    /\ pre' = NoPre
    /\ UNCHANGED <<cfg, step, refs, previous, cache, now, resetOf, issued, completed, lastOp,
                   signals, chosen, arg, ret>>

\* The keyword arguments observe() passes to ObservationResult(...).
ObserveResultKwargs ==
    {"step", "url", "representation_type", "formatted_text", "delta", "page_state",
     "token_count", "latency_ms", "diff_discarded"}

\* The end of observe(): the result is assembled from the keyword arguments
\* observe() passes.  Reading a missing method of the formatter, or naming a
\* field ObservationResult does not declare, raises.
ObserveAssemble(stp, page_state, navigated, diffed, formatted) ==
    LET calls_format_full == diffed.delta /= NoneRec /\ ~diffed.delta.is_full_state
        error == IF calls_format_full /\ "format_full" \notin OutputFormatterMethods
                 THEN "AttributeError"
                 ELSE IF ~(ObserveResultKwargs \subseteq ObservationResultFields)
                 THEN "TypeError"
                 ELSE ""
    IN  [store |-> diffed.store,
         error |-> error,
         result |-> IF error /= "" THEN NoneRec
                    ELSE [step |-> stp, url |-> page_state.url,
                          representation_type |-> page_state.representation_type,
                          formatted_text |-> formatted.text, delta |-> diffed.delta,
                          page_state |-> page_state, token_count |-> formatted.token_count,
                          diff_discarded |-> navigated]]

\* Layer 4 of observe(): format the state or the delta within the budget.
ObserveFormat(stp, page_state, navigated, budget, diffed) ==
    ObserveAssemble(stp, page_state, navigated, diffed,
                    Format(page_state, diffed.delta, budget))

ObserveTailKeepsStore(c, stp, prev, extracted) ==
    ObserveFormat(stp, [extracted EXCEPT !.step = stp], FALSE, c.token_budget,
                  [store |-> prev, delta |-> NoneRec])

\* observe() from the PageState on: stamp the step, diff, format, apply the
\* token-count fallback, assemble the result.  Nothing here awaits.
ObserveTail(c, stp, prev, extracted) ==
    LET page_state == [extracted EXCEPT !.step = stp]
        prev_url == GetPreviousUrl(prev)
        navigated == c.enable_diffing /\ prev_url /= NoneRec /\ prev_url /= page_state.url
    IN  ObserveFormat(stp, page_state, navigated, c.token_budget,
                      IF ~c.enable_diffing THEN [store |-> prev, delta |-> NoneRec]
                      ELSE IF navigated THEN ForceFullState(prev, page_state)
                      ELSE DifferDiff(prev, page_state))

\* The rest of extract() and of observe(): the remaining page queries are
\* answered (the visual regions, for the hybrid extractor, and the title),
\* the PageState is built, and observe() runs to its end.
Finish(boxes) ==
    /\ pc = "title"
    /\ LET extracted == [url |-> cur.url, title |-> "T",
                         representation_type |-> cur.rep_type, root |-> cur.root,
                         screenshot_b64 |-> IF cur.rep_type = HYBRID
                                            THEN CaptureVisualRegions(boxes, TRUE, TRUE).shot
                                            ELSE cur.screenshot_b64,
                         step |-> 0]
       IN  \E tail \in {ObserveTail(cfg, step, previous, extracted)} :
               /\ previous' = tail.store
               /\ out' = [error |-> tail.error, result |-> tail.result]
               /\ completed' = IF tail.error = "" THEN tail.result.page_state
                               ELSE completed
    /\ pc' = "idle"
    /\ cur' = NoCall
    /\ pre' = NoPre
    /\ UNCHANGED <<cfg, step, refs, cache, now, resetOf, issued, lastOp, signals, chosen, arg, ret>>

\* BrowserLens.reset
Reset ==
    /\ pc = "idle"
    /\ step' = 0
    /\ refs' = RefManagerReset(refs)
    /\ previous' = NoneRec
    /\ resetOf' = [step |-> step, counter |-> refs.counter, stored |-> previous /= NoneRec]
    /\ issued' = {}
    /\ completed' = NoneRec
    /\ out' = NoOut
    /\ lastOp' = "reset"
    /\ UNCHANGED <<cfg, cache, now, pc, cur, pre, signals, chosen, arg, ret>>

Next ==
    \/ Tick
    \/ \E url \in Urls : ObserveStart(url)
    \/ \E dom \in DomProfiles : Route(dom)
    \/ \E tree \in RawTrees : Extract(tree)
    \/ Fail
    \/ \E boxes \in {0, 1} : Finish(boxes)
    \/ Reset

Spec == Init /\ [][Next]_vars

(***************************************************************************)
(* Two BrowserLens objects in one event loop.  The variables hold the lens *)
(* whose call is running; arg.parked holds the other lens as it was when   *)
(* the event loop left it, and arg.objects the identity of the RefManager, *)
(* the SnapshotStore and the router cache each lens was constructed with.  *)
(* SwitchLens hands control to the other lens, at an await of observe() or *)
(* between calls: what the two lenses hold as one object stays as the      *)
(* running lens left it, everything else comes back as it was parked.      *)
(***************************************************************************)
LensObjectsSharedRefManager(k) ==
    [refs |-> "RefManager", store |-> "SnapshotStore" \o ToString(k),
     cache |-> "cache" \o ToString(k)]

\* BrowserLens.__init__: every lens constructs its own RefManager, StateDiffer
\* (with its SnapshotStore) and AdaptiveRouter (with its cache).
LensObjects(k) ==
    [refs |-> "RefManager" \o ToString(k), store |-> "SnapshotStore" \o ToString(k),
     cache |-> "cache" \o ToString(k)]

\* The per-lens state of the running lens.
LensState ==
    [step |-> step, refs |-> refs, previous |-> previous, cache |-> cache, pc |-> pc,
     cur |-> cur, out |-> out, pre |-> pre, resetOf |-> resetOf, issued |-> issued,
     completed |-> completed, lastOp |-> lastOp]

TwoLensInit ==
    /\ LensInit
    /\ cfg = Config(DEFAULT_TOKEN_BUDGET, TRUE, TRUE, None, None)
    /\ signals = NoneRec
    /\ chosen = None
    /\ arg = [objects |-> [k \in 1..2 |-> LensObjects(k)], focus |-> 1, switches |-> 0,
              parked |-> LensState]
    /\ ret = NoneRec

SameObject(component) == arg.objects[1][component] = arg.objects[2][component]

SwitchLens ==
    /\ arg.switches < MaxSwitches
    /\ step' = arg.parked.step
    /\ refs' = IF SameObject("refs") THEN refs ELSE arg.parked.refs
    /\ previous' = IF SameObject("store") THEN previous ELSE arg.parked.previous
    /\ cache' = IF SameObject("cache") THEN cache ELSE arg.parked.cache
    /\ pc' = arg.parked.pc
    /\ cur' = arg.parked.cur
    /\ out' = arg.parked.out
    /\ pre' = arg.parked.pre
    /\ resetOf' = arg.parked.resetOf
    /\ issued' = arg.parked.issued
    /\ completed' = arg.parked.completed
    /\ lastOp' = arg.parked.lastOp
    /\ arg' = [arg EXCEPT !.focus = 3 - @, !.switches = @ + 1, !.parked = LensState]
    /\ UNCHANGED <<cfg, now, signals, chosen, ret>>

\* The pages the two lenses look at.
TwoLensTrees ==
    {<<RawRoot, RawNode("button", "Go", "", 1)>>,
     <<RawRoot, RawNode("textbox", "Q", "", 1), RawNode("button", "Go", "", 1)>>}

TwoLensNext ==
    \/ ObserveStart(Url("a.test", "/"))
    \/ Route(Dom(FALSE, FALSE, 10, 9, 100, 0))
    \/ \E tree \in TwoLensTrees : Extract(tree)
    \/ Fail
    \/ Finish(0)
    \/ Reset
    \/ SwitchLens

SpecTwoLenses == TwoLensInit /\ [][TwoLensNext]_vars

(***************************************************************************)
(* RepresentationStrategy.select on its own: the signals are drawn from    *)
(* every combination around the thresholds, and select is applied once.    *)
(***************************************************************************)
SignalInputs ==
    [url : Urls, has_canvas : BOOLEAN, has_webgl : BOOLEAN,
     a11y_coverage : {0, 29, 30, 49, 50, 79, 80, 100},
     dom_node_count : {0, 1999, 2000, 5000},
     dom_max_depth : {3, 30},
     page_type : {"unknown", "form"}]

StrategyInit ==
    /\ LensInit
    /\ signals \in SignalInputs
    /\ chosen = None
    /\ arg = NoneRec
    /\ ret = NoneRec

SelectStep ==
    /\ chosen = None
    /\ chosen' = StrategySelect(signals)
    /\ UNCHANGED <<lensVars, signals, arg, ret>>

SpecStrategy == StrategyInit /\ [][SelectStep]_vars

(***************************************************************************)
(* diff_trees on its own: two trees as the extractors stamp them, the new  *)
(* one through the RefManager that stamped the old one (two observations   *)
(* in a row) or through a fresh one (a reset, or another BrowserLens, in   *)
(* between), then diff_trees is applied once.                              *)
(***************************************************************************)
DiffTreesInputs ==
    {[old |-> ConvertNode(A11Y_TREE, t1, NewRefManager).root,
      new |-> ConvertNode(A11Y_TREE, t2,
                          IF fresh THEN NewRefManager
                          ELSE ConvertNode(A11Y_TREE, t1, NewRefManager).rm).root] :
        t1 \in RawTrees, t2 \in RawTrees, fresh \in BOOLEAN}

TreeDiffInit ==
    /\ LensInit
    /\ signals = NoneRec
    /\ chosen = None
    /\ arg \in DiffTreesInputs
    /\ ret = NoneRec

TreeDiffStep ==
    /\ ret = NoneRec
    /\ ret' = DiffTrees(arg.old, arg.new, 2, A11Y_TREE)
    /\ UNCHANGED <<lensVars, signals, chosen, arg>>

SpecTreeDiff == TreeDiffInit /\ [][TreeDiffStep]_vars

(***************************************************************************)
(* diff_trees on trees built by hand, as tests/test_differ.py builds them: *)
(* a document root @e1 with a button "Go" and an optional textbox "Q", in  *)
(* either order or one under the other, with refs chosen freely (distinct  *)
(* within a tree) and the button's six compared properties varied.         *)
(***************************************************************************)
Props(value, checked, expanded, disabled, focused, live) ==
    [value |-> value, checked |-> checked, expanded |-> expanded,
     disabled |-> disabled, focused |-> focused, live |-> live]

DefaultProps == Props("", "unset", "unset", FALSE, FALSE, "")

PropProfiles ==
    {DefaultProps,
     Props("x", "unset", "unset", FALSE, FALSE, ""),
     Props("", "false", "unset", FALSE, FALSE, ""),
     Props("", "true", "unset", FALSE, FALSE, ""),
     Props("", "unset", "false", FALSE, FALSE, ""),
     Props("", "unset", "true", FALSE, FALSE, ""),
     Props("", "unset", "unset", TRUE, FALSE, ""),
     Props("", "unset", "unset", FALSE, TRUE, ""),
     Props("", "unset", "unset", FALSE, FALSE, "polite"),
     Props("x", "true", "true", TRUE, TRUE, "polite")}

\* make_node of tests/test_differ.py
MakeNode(ref, role, name, parent, p) ==
    MakeStateNode(A11Y_TREE,
                  [role |-> role, name |-> name, value |-> p.value,
                   checked |-> p.checked, expanded |-> p.expanded,
                   disabled |-> p.disabled, focused |-> p.focused, live |-> p.live,
                   parent |-> parent],
                  ref)

Shapes == {"a", "ab", "ba", "a[b]", "b[a]"}

HandTree(shape, ref_a, ref_b, p) ==
    LET root == MakeNode("@e1", "document", "", 0, DefaultProps)
        a(parent) == MakeNode(ref_a, "button", "Go", parent, p)
        b(parent) == MakeNode(ref_b, "textbox", "Q", parent, DefaultProps)
    IN  CASE shape = "a" -> <<root, a(1)>>
          [] shape = "ab" -> <<root, a(1), b(1)>>
          [] shape = "ba" -> <<root, b(1), a(1)>>
          [] shape = "a[b]" -> <<root, a(1), b(2)>>
          [] shape = "b[a]" -> <<root, b(1), a(2)>>

\* The refs of the button and the textbox in the new tree: kept, swapped,
\* the button's new, both new.
NewRefChoices ==
    {<<"@e2", "@e3">>, <<"@e3", "@e2">>, <<"@e4", "@e3">>, <<"@e4", "@e5">>}

DiffPairsInputs ==
    {[old |-> HandTree(s1, "@e2", "@e3", p1),
      new |-> HandTree(s2, r[1], r[2], p2)] :
        s1 \in Shapes, s2 \in Shapes, r \in NewRefChoices,
        p1 \in PropProfiles, p2 \in PropProfiles}

DiffPairsInit ==
    /\ LensInit
    /\ cfg = Config(DEFAULT_TOKEN_BUDGET, TRUE, TRUE, None, None)
    /\ signals = NoneRec
    /\ chosen = None
    /\ arg \in DiffPairsInputs
    /\ ret = NoneRec

DiffPairsStep ==
    /\ ret = NoneRec
    /\ ret' = DiffTrees(arg.old, arg.new, 2, A11Y_TREE)
    /\ UNCHANGED <<lensVars, signals, chosen, arg>>

SpecDiffPairs == DiffPairsInit /\ [][DiffPairsStep]_vars

(***************************************************************************)
(* SemanticFilter.filter on its own: a Delta with up to MaxListed added    *)
(* and changed entries and at most one removed entry, drawn from nodes and *)
(* changes of every kind the filter tells apart, then filter is applied.   *)
(***************************************************************************)
FilterNode(role, name, live) ==
    <<MakeStateNode(A11Y_TREE, [RawNode(role, name, "", 0) EXCEPT !.live = live], "@e1")>>

FilterNodes ==
    {FilterNode("alert", "Error", ""),
     FilterNode("alert", "Sponsored offer expired", ""),
     FilterNode("generic", "12:30", ""),
     FilterNode("status", "Saved", "polite"),
     FilterNode("button", "Go", "")}

FilterChange(role, name, props) ==
    [ref |-> "@e1", role |-> role, name |-> name, changed_props |-> props]

FilterChanges ==
    {FilterChange("text", "Clock", [p \in {"value"} |-> <<"12:30", "12:31">>]),
     FilterChange("textbox", "Q", [p \in {"value"} |-> <<"", "x">>]),
     FilterChange("textbox", "Q", [p \in {"value", "focused"} |->
                                      IF p = "value" THEN <<"", "5 min ago">>
                                      ELSE <<FALSE, TRUE>>]),
     FilterChange("button", "Promoted post", [p \in {"disabled"} |-> <<FALSE, TRUE>>])}

FilterInputs ==
    {Delta(2, added, removed, changed, 0, FALSE, A11Y_TREE) :
        added \in SeqsUpTo(FilterNodes, MaxListed),
        removed \in SeqsUpTo(FilterNodes, 1),
        changed \in SeqsUpTo(FilterChanges, MaxListed)}

FilterInit ==
    /\ LensInit
    /\ cfg = Config(DEFAULT_TOKEN_BUDGET, TRUE, TRUE, None, None)
    /\ signals = NoneRec
    /\ chosen = None
    /\ arg \in FilterInputs
    /\ ret = NoneRec

FilterStep ==
    /\ ret = NoneRec
    /\ ret' = Filter(arg)
    /\ UNCHANGED <<lensVars, signals, chosen, arg>>

SpecFilter == FilterInit /\ [][FilterStep]_vars

(***************************************************************************)
(* SemanticFilter.filter on the cases its three node rules and its change  *)
(* rules tell apart, near misses included: a Delta that lists only nodes   *)
(* (up to MaxListed added, at most one removed) or only changes.           *)
(***************************************************************************)
NodeCases ==
    {FilterNode("alert", "Error", ""),
     FilterNode("link", "SPONSORED: shoes", ""),
     FilterNode("text", " 5 min ago ", ""),
     FilterNode("generic", "12:30", ""),
     FilterNode("button", "12:30", ""),
     FilterNode("text", "12:30 train", ""),
     FilterNode("status", "Saved", "polite"),
     FilterNode("status", "Saved", ""),
     FilterNode("alert", "Failed", "assertive")}

ValueChange(role, name, old, new) ==
    FilterChange(role, name, [p \in {"value"} |-> <<old, new>>])

ChangeCases ==
    {ValueChange("text", "Clock", "12:30", "12:31"),
     ValueChange("text", "Clock", "x", "12:31"),
     ValueChange("text", "Clock", "12:30", "x"),
     ValueChange("progressbar", "Upload", "9%", " 10% "),
     FilterChange("textbox", "Q", [p \in {"value", "focused"} |->
                                      IF p = "value" THEN <<"", "5 min ago">>
                                      ELSE <<FALSE, TRUE>>]),
     FilterChange("text", "12:30", [p \in {"focused"} |-> <<FALSE, TRUE>>]),
     FilterChange("button", "Promoted post", [p \in {"disabled"} |-> <<FALSE, TRUE>>])}

FilterCases ==
    {Delta(2, added, removed, <<>>, 3, FALSE, A11Y_TREE) :
        added \in SeqsUpTo(NodeCases, MaxListed), removed \in SeqsUpTo(NodeCases, 1)}
    \cup {Delta(2, <<>>, <<>>, changed, 3, FALSE, DISTILLED_DOM) :
            changed \in SeqsUpTo(ChangeCases, MaxListed)}

FilterCasesInit ==
    /\ LensInit
    /\ cfg = Config(DEFAULT_TOKEN_BUDGET, TRUE, TRUE, None, None)
    /\ signals = NoneRec
    /\ chosen = None
    /\ arg \in FilterCases
    /\ ret = NoneRec

SpecFilterCases == FilterCasesInit /\ [][FilterStep]_vars

(***************************************************************************)
(* differ/differ.py: a StateDiffer driven by diff, force_full_state and    *)
(* reset.  The page states handed to it are trees stamped through one      *)
(* RefManager, as the extractors of one lens stamp them.  arg holds the    *)
(* snapshot store, that RefManager and the number of calls made; ret is    *)
(* the last call: its method, the state passed, the store before the call  *)
(* and the Delta returned.                                                 *)
(***************************************************************************)
DifferTrees ==
    {<<RawRoot, RawNode("button", "Go", "", 1)>>,
     <<RawRoot, RawNode("button", "Go", "", 1), RawNode("generic", "12:30", "", 1)>>,
     <<RawRoot, RawNode("button", "Go", "", 1), RawNode("textbox", "Q", "", 1)>>,
     <<RawRoot, RawNode("button", "Go", "", 1), RawNode("textbox", "Q", "x", 1)>>,
     <<RawRoot, RawNode("button", "Go", "", 1), RawNode("button", "Go", "", 1)>>,
     <<RawRoot, RawNode("text", "Clock", "12:30", 1)>>,
     <<RawRoot, RawNode("text", "Clock", "12:31", 1)>>}

\* The PageState an extractor returns and observe() numbers.
DifferState(tree, rm, stp) ==
    [url |-> "https://a.test/", title |-> "T", representation_type |-> A11Y_TREE,
     root |-> ConvertNode(A11Y_TREE, tree, rm).root, screenshot_b64 |-> None,
     step |-> stp]

DifferInit ==
    /\ LensInit
    /\ cfg = Config(DEFAULT_TOKEN_BUDGET, TRUE, TRUE, None, None)
    /\ signals = NoneRec
    /\ chosen = None
    /\ arg = [store |-> NoneRec, rm |-> NewRefManager, calls |-> 0]
    /\ ret = NoneRec

\* StateDiffer.diff
DifferDiffCall(tree) ==
    /\ arg.calls < MaxDifferCalls
    /\ \E current \in {DifferState(tree, arg.rm, arg.calls + 1)} :
       \E done \in {DifferDiff(arg.store, current)} :
          /\ arg' = [store |-> done.store, rm |-> ConvertNode(A11Y_TREE, tree, arg.rm).rm,
                     calls |-> arg.calls + 1]
          /\ ret' = [op |-> "diff", current |-> current, before |-> arg.store,
                     delta |-> done.delta]
    /\ UNCHANGED <<lensVars, signals, chosen>>

\* StateDiffer.force_full_state
DifferForceCall(tree) ==
    /\ arg.calls < MaxDifferCalls
    /\ \E current \in {DifferState(tree, arg.rm, arg.calls + 1)} :
       \E done \in {ForceFullState(arg.store, current)} :
          /\ arg' = [store |-> done.store, rm |-> ConvertNode(A11Y_TREE, tree, arg.rm).rm,
                     calls |-> arg.calls + 1]
          /\ ret' = [op |-> "force_full_state", current |-> current, before |-> arg.store,
                     delta |-> done.delta]
    /\ UNCHANGED <<lensVars, signals, chosen>>

\* StateDiffer.reset
DifferResetCall ==
    /\ arg.calls < MaxDifferCalls
    /\ arg' = [arg EXCEPT !.store = NoneRec, !.calls = @ + 1]
    /\ ret' = [op |-> "reset", current |-> NoneRec, before |-> arg.store,
               delta |-> NoneRec]
    /\ UNCHANGED <<lensVars, signals, chosen>>

DifferNext ==
    \/ \E tree \in DifferTrees : DifferDiffCall(tree)
    \/ \E tree \in DifferTrees : DifferForceCall(tree)
    \/ DifferResetCall

SpecDiffer == DifferInit /\ [][DifferNext]_vars

(***************************************************************************)
(* AdaptiveRouter on its own: get_signals, select and invalidate_cache on  *)
(* pages of two origins, with the clock moving in half time-to-lives.      *)
(* PageSignals is a mutable dataclass and the cache keeps the object it    *)
(* returns, so arg.ident names the object each cache entry holds,          *)
(* arg.heap gives every object's fields as they are now, and arg.handed    *)
(* lists each object get_signals returned with the fields it had then.     *)
(***************************************************************************)
MaxRouterCalls == 3
MaxRouterTicks == 2

RouterTickSeconds == CACHE_TTL \div 2

RouterUrls == Urls \cup {Url("b.test", "/")}

\* The pages the router is asked about: two pages of a.test and one of b.test.
RouterPages == {[url |-> u, dom |-> Dom(FALSE, FALSE, 10, 9, 100, 0)] : u \in RouterUrls}

RouterInit ==
    /\ LensInit
    /\ cfg = Config(DEFAULT_TOKEN_BUDGET, TRUE, TRUE, None, None)
    /\ signals = NoneRec
    /\ chosen = None
    /\ arg = [cache |-> EmptyMap, ident |-> EmptyMap, heap |-> EmptyMap, handed |-> <<>>,
              calls |-> 0, now |-> 0, dropped |-> {}, queried |-> EmptyMap]
    /\ ret = NoneRec

\* time.monotonic() moves on between calls.
RouterTick ==
    /\ arg.now < MaxRouterTicks * RouterTickSeconds
    /\ arg' = [arg EXCEPT !.now = @ + RouterTickSeconds]
    /\ UNCHANGED <<lensVars, signals, chosen, ret>>

\* get_signals(page) and select(page): both await _get_signals(page). On a
\* live entry the cached object gets the page's url and is returned; else
\* the page is queried and a new object is cached and returned.
RouterCall(op, page) ==
    /\ arg.calls < MaxRouterCalls
    /\ LET origin == Origin(page.url)
           hit == CacheHit(arg.cache, page, arg.now)
           got == GetSignals(arg.cache, page, arg.now)
           id == IF hit THEN arg.ident[origin] ELSE arg.calls + 1
       IN  /\ arg' = [cache |-> got.cache,
                      ident |-> [o \in DOMAIN arg.ident \cup {origin} |->
                                    IF o = origin THEN id ELSE arg.ident[o]],
                      heap |-> [x \in DOMAIN arg.heap \cup {id} |->
                                    IF x = id THEN got.signals ELSE arg.heap[x]],
                      handed |-> IF op = "get_signals"
                                 THEN Append(arg.handed, [id |-> id, signals |-> got.signals])
                                 ELSE arg.handed,
                      calls |-> arg.calls + 1,
                      now |-> arg.now,
                      dropped |-> arg.dropped \ {origin},
                      queried |-> IF hit THEN arg.queried
                                  ELSE [o \in DOMAIN arg.queried \cup {origin} |->
                                           IF o = origin THEN arg.now ELSE arg.queried[o]]]
           /\ ret' = [op |-> op, url |-> page.url, before |-> arg.cache,
                      dropped |-> origin \in arg.dropped,
                      queried |-> ~hit,
                      since |-> IF origin \in DOMAIN arg.queried
                                THEN arg.now - arg.queried[origin] ELSE -1,
                      rep_type |-> IF op = "select"
                                   THEN RouterSelect(None, arg.cache, page, arg.now).rep_type
                                   ELSE None]
    /\ UNCHANGED <<lensVars, signals, chosen>>

\* invalidate_cache(url) and invalidate_cache().
RouterInvalidate(url) ==
    /\ LET kept == InvalidateCache(arg.cache, url)
       IN  arg' = [arg EXCEPT !.cache = kept,
                              !.ident = [o \in DOMAIN kept |-> arg.ident[o]],
                              !.dropped = IF url = NoneRec
                                          THEN {Origin(u) : u \in RouterUrls}
                                          ELSE @ \cup {Origin(url)}]
    /\ ret' = [op |-> "invalidate_cache", url |-> url, before |-> arg.cache]
    /\ UNCHANGED <<lensVars, signals, chosen>>

RouterNext ==
    \/ RouterTick
    \/ \E page \in RouterPages : RouterCall("get_signals", page)
    \/ \E page \in RouterPages : RouterCall("select", page)
    \/ \E url \in RouterUrls : RouterInvalidate(url)
    \/ RouterInvalidate(NoneRec)

SpecRouter == RouterInit /\ [][RouterNext]_vars

(***************************************************************************)
(* compiler/healer.py: WorkflowHealer.heal on its own. arg is the call:    *)
(* the lens the healer was built with, the role and name of the step's     *)
(* target, the llm_caller, where heal() has got to, and the levels it has  *)
(* run with what happened inside each. ret is what heal() returned.        *)
(***************************************************************************)
\* The lens a healer is built with: none, a BrowserLens (whose observe()
\* raises before it returns), or a test double whose observe() returns.
HealerLenses == {None, "BrowserLens", "double"}

\* What can happen inside _heal_level1: no _selectors in the step's source,
\* every strategy raises, or a strategy and the re-run step succeed.
Level1Outcomes == {"no_selectors", "every_strategy_raises", "healed"}

\* Inside _heal_level2: observe() raises, the element is not in the tree,
\* the re-run step raises, or it succeeds.
Level2Outcomes(lens) ==
    IF lens = "BrowserLens" THEN {"observe_raises"}
    ELSE {"observe_raises", "not_found", "step_raises", "healed"}

\* Inside _heal_level3: llm_caller raises, returns nothing, the action on
\* the locator raises, or it succeeds.
Level3Outcomes == {"caller_raises", "no_result", "action_raises", "healed"}

Raising == {"every_strategy_raises", "observe_raises", "step_raises", "caller_raises",
            "action_raises"}

LevelResultUncaught(outcome) ==
    IF outcome = "healed" THEN "True" ELSE IF outcome \in Raising THEN "raise" ELSE "False"

\* What a level hands back to heal(): True on success; the try/except
\* Exception around each strategy of level 1 and around the whole body of
\* levels 2 and 3 turns whatever is raised inside into False.
LevelResult(outcome) == IF outcome = "healed" THEN "True" ELSE "False"

Level2AttemptedWithoutTarget(h) == h.lens /= None

\* heal(): the guard of level 2.
Level2Attempted(h) == h.lens /= None /\ h.role /= "" /\ h.name /= ""

Level3AttemptedAlways(h) == TRUE

\* heal(): the guard of level 3.
Level3Attempted(h) == h.llm_caller /= None

HealerInit ==
    /\ LensInit
    /\ cfg = Config(DEFAULT_TOKEN_BUDGET, TRUE, TRUE, None, None)
    /\ signals = NoneRec
    /\ chosen = None
    /\ arg \in [lens : HealerLenses, role : {"", "button"}, name : {"", "Go"},
                llm_caller : {None, "llm"}, at : {"level1"}, tried : {<<>>},
                outcomes : {<<>>}]
    /\ ret = NoneRec

\* heal() after a level ran: return (True, level) if it healed, else go on;
\* heal() itself catches nothing, so what a level raises leaves heal().
HealAfter(level, outcome, next) ==
    /\ arg' = [arg EXCEPT !.at = CASE LevelResult(outcome) = "True" -> "returned"
                                   [] LevelResult(outcome) = "False" -> next
                                   [] OTHER -> "raised",
                          !.tried = Append(@, level),
                          !.outcomes = Append(@, outcome)]
    /\ ret' = IF LevelResult(outcome) = "True"
              THEN [healed |-> TRUE, heal_level |-> level]
              ELSE ret

HealLevel1(outcome) ==
    /\ arg.at = "level1"
    /\ HealAfter(1, outcome, "level2")
    /\ UNCHANGED <<lensVars, signals, chosen>>

HealLevel2(outcome) ==
    /\ arg.at = "level2"
    /\ IF Level2Attempted(arg)
       THEN HealAfter(2, outcome, "level3")
       ELSE arg' = [arg EXCEPT !.at = "level3"] /\ ret' = ret
    /\ UNCHANGED <<lensVars, signals, chosen>>

HealLevel3(outcome) ==
    /\ arg.at = "level3"
    /\ IF Level3Attempted(arg)
       THEN HealAfter(3, outcome, "none_left")
       ELSE arg' = [arg EXCEPT !.at = "none_left"] /\ ret' = ret
    /\ UNCHANGED <<lensVars, signals, chosen>>

\* heal(): return False, None.
HealGiveUp ==
    /\ arg.at = "none_left"
    /\ arg' = [arg EXCEPT !.at = "returned"]
    /\ ret' = [healed |-> FALSE, heal_level |-> None]
    /\ UNCHANGED <<lensVars, signals, chosen>>

HealerNext ==
    \/ \E outcome \in Level1Outcomes : HealLevel1(outcome)
    \/ \E outcome \in Level2Outcomes(arg.lens) : HealLevel2(outcome)
    \/ \E outcome \in Level3Outcomes : HealLevel3(outcome)
    \/ HealGiveUp

SpecHealer == HealerInit /\ [][HealerNext]_vars

(***************************************************************************)
(* Two callers of observe() on one BrowserLens: the agent, and the healer  *)
(* the lens built with lens=self, whose level 2 awaits lens.observe(page)  *)
(* once. observe() takes no lock, so a call suspended at an await (the     *)
(* snapshot query, the title query) can be overtaken by the other          *)
(* caller's. arg is the lens (step, RefManager, store), each caller's      *)
(* suspended call, and a log of the calls that ended.                      *)
(***************************************************************************)
MaxObserves == 3

Callers == {"agent", "healer"}

ObserverTrees ==
    {<<RawRoot, RawNode("button", "Go", "", 1)>>,
     <<RawRoot, RawNode("button", "Go", "", 1), RawNode("textbox", "Q", "", 1)>>}

\* Diffing on, routing off: observe() awaits only the extractor.
ObserverCfg == Config(8, TRUE, FALSE, None, None)

NoTask == [pc |-> "idle", own |-> 0, from |-> 0, url |-> NoneRec, root |-> <<>>]

ObserversInit ==
    /\ LensInit
    /\ cfg = ObserverCfg
    /\ signals = NoneRec
    /\ chosen = None
    /\ arg = [step |-> 0, rm |-> NewRefManager, store |-> NoneRec,
              tasks |-> [t \in Callers |-> NoTask], started |-> 0, log |-> <<>>]
    /\ ret = NoneRec

\* observe() up to its first await: self._step += 1. own is the value this
\* call's increment produced, from the value it found.
ObserverStart(t, url) ==
    /\ arg.tasks[t].pc = "idle"
    /\ arg.started < MaxObserves
    /\ arg' = [arg EXCEPT !.step = @ + 1,
                          !.started = @ + 1,
                          !.tasks[t] = [pc |-> "snapshot", own |-> arg.step + 1,
                                        from |-> arg.step, url |-> url, root |-> <<>>]]
    /\ UNCHANGED <<lensVars, signals, chosen, ret>>

\* The snapshot query is answered and the tree converted through the
\* RefManager; extract() then awaits the title.
ObserverSnapshot(t, tree) ==
    /\ arg.tasks[t].pc = "snapshot"
    /\ LET conv == ConvertNode(A11Y_TREE, tree, arg.rm)
       IN  arg' = [arg EXCEPT !.rm = conv.rm,
                              !.tasks[t].pc = "title",
                              !.tasks[t].root = conv.root]
    /\ UNCHANGED <<lensVars, signals, chosen, ret>>

\* A page query raises: the exception leaves observe(), and _heal_level2
\* turns it into False.
ObserverPageError(t) ==
    /\ arg.tasks[t].pc \in {"snapshot", "title"}
    /\ arg' = [arg EXCEPT !.tasks[t] = NoTask,
                          !.log = Append(@, [by |-> t, own |-> arg.tasks[t].own,
                                             from |-> arg.tasks[t].from,
                                             error |-> "PageError"])]
    /\ UNCHANGED <<lensVars, signals, chosen, ret>>

\* The title is answered and observe() runs to its end without another
\* await: page_state.step = self._step, the differ, the formatter, the
\* result. The log keeps the step stamped, the snapshot the differ held
\* before and holds after, and how the call ended.
ObserverFinish(t) ==
    /\ arg.tasks[t].pc = "title"
    /\ LET task == arg.tasks[t]
           extracted == [url |-> task.url, title |-> "T", representation_type |-> A11Y_TREE,
                         root |-> task.root, screenshot_b64 |-> None, step |-> 0]
       IN  \E tail \in {ObserveTail(cfg, arg.step, arg.store, extracted)} :
               arg' = [arg EXCEPT !.store = tail.store,
                                  !.tasks[t] = NoTask,
                                  !.log = Append(@, [by |-> t, own |-> task.own,
                                                     from |-> task.from,
                                                     stamped |-> arg.step,
                                                     url |-> task.url,
                                                     against |-> arg.store,
                                                     stored |-> tail.store,
                                                     error |-> tail.error,
                                                     result |-> tail.result])]
    /\ UNCHANGED <<lensVars, signals, chosen, ret>>

ObserversNext ==
    \/ \E t \in Callers : \E url \in Urls : ObserverStart(t, url)
    \/ \E t \in Callers : \E tree \in ObserverTrees : ObserverSnapshot(t, tree)
    \/ \E t \in Callers : ObserverPageError(t)
    \/ \E t \in Callers : ObserverFinish(t)

SpecObservers == ObserversInit /\ [][ObserversNext]_vars

(***************************************************************************)
(* HybridExtractor.extract on its own: the page answers the tree query,    *)
(* counts zero, one or two visual regions, and each of the two screenshots *)
(* succeeds or fails.                                                      *)
(***************************************************************************)
HybridInputs ==
    [tree : RawTrees, boxes : {0, 1, 2}, clip_ok : BOOLEAN, viewport_ok : BOOLEAN]

HybridInit ==
    /\ LensInit
    /\ cfg = Config(DEFAULT_TOKEN_BUDGET, TRUE, TRUE, None, None)
    /\ signals = NoneRec
    /\ chosen = None
    /\ arg \in HybridInputs
    /\ ret = NoneRec

HybridStep ==
    /\ ret = NoneRec
    /\ ret' = HybridExtract(Url("a.test", "/"), arg.tree, arg.boxes, arg.clip_ok,
                            arg.viewport_ok, NewRefManager)
    /\ UNCHANGED <<lensVars, signals, chosen, arg>>

SpecHybrid == HybridInit /\ [][HybridStep]_vars

(***************************************************************************)
(* TokenBudget.truncate on its own: a text of up to MaxTextLen characters  *)
(* and a limit of up to MaxLimit tokens, then truncate is applied.         *)
(***************************************************************************)
TruncateInputs ==
    [text : {SubSeq("abcdefghijklmnopqrstuvwxyz0123456789", 1, n) : n \in 0..MaxTextLen},
     limit : 0..MaxLimit]

TruncateInit ==
    /\ LensInit
    /\ cfg = Config(DEFAULT_TOKEN_BUDGET, TRUE, TRUE, None, None)
    /\ signals = NoneRec
    /\ chosen = None
    /\ arg \in TruncateInputs
    /\ ret = NoneRec

TruncateStep ==
    /\ ret = NoneRec
    /\ ret' = Truncate(arg.text, arg.limit)
    /\ UNCHANGED <<lensVars, signals, chosen, arg>>

SpecTruncate == TruncateInit /\ [][TruncateStep]_vars

(***************************************************************************)
(* formatter/ref_manager.py: a RefManager driven by its three methods.     *)
(* arg holds the manager, the number of calls made, and the history since  *)
(* the last reset (fingerprints requested, refs returned); ret is the      *)
(* last call: its method, its argument, its result and the manager before. *)
(***************************************************************************)
Fingerprints ==
    {<<"document", "", "">>, <<"button", "Go", "document">>,
     <<"textbox", "Q", "document">>}

RefArguments == {"@e" \o ToString(n) : n \in 0..(MaxCalls + 1)}

RefManagerInit ==
    /\ LensInit
    /\ cfg = Config(DEFAULT_TOKEN_BUDGET, TRUE, TRUE, None, None)
    /\ signals = NoneRec
    /\ chosen = None
    /\ arg = [rm |-> NewRefManager, calls |-> 0, requested |-> {}, returned |-> {}]
    /\ ret = NoneRec

RefManagerGetOrCreate(fp) ==
    /\ arg.calls < MaxCalls
    /\ \E got \in {GetOrCreate(arg.rm, fp)} :
          /\ arg' = [rm |-> got.rm, calls |-> arg.calls + 1,
                     requested |-> arg.requested \cup {fp},
                     returned |-> arg.returned \cup {got.ref}]
          /\ ret' = [op |-> "get_or_create", fp |-> fp, ref |-> got.ref,
                     before |-> arg.rm]
    /\ UNCHANGED <<lensVars, signals, chosen>>

RefManagerLookup(ref) ==
    /\ arg.calls < MaxCalls
    /\ arg' = [arg EXCEPT !.calls = @ + 1]
    /\ ret' = [op |-> "lookup", fp |-> Lookup(arg.rm, ref), ref |-> ref,
               before |-> arg.rm]
    /\ UNCHANGED <<lensVars, signals, chosen>>

RefManagerResetCall ==
    /\ arg.calls < MaxCalls
    /\ arg' = [rm |-> RefManagerReset(arg.rm), calls |-> arg.calls + 1,
               requested |-> {}, returned |-> {}]
    /\ ret' = [op |-> "reset", fp |-> NoneTuple, ref |-> None, before |-> arg.rm]
    /\ UNCHANGED <<lensVars, signals, chosen>>

RefManagerNext ==
    \/ \E fp \in Fingerprints : RefManagerGetOrCreate(fp)
    \/ \E ref \in RefArguments : RefManagerLookup(ref)
    \/ RefManagerResetCall

SpecRefManager == RefManagerInit /\ [][RefManagerNext]_vars

(***************************************************************************)
(* compiler/executor.py: WorkflowExecutor.execute.  arg.workflow is what   *)
(* the call meets: whether the cache holds the id, whether the script      *)
(* loads, and for each entry of STEPS what its step function does (absent  *)
(* from the module, returns, raises and is healed, raises and is not).     *)
(* arg.run is the call in progress; arg.awaited lists the step functions   *)
(* the call has awaited so far.                                            *)
(***************************************************************************)
StepOutcomes == {"ok", "missing", "healed", "unhealed"}

\* STEPS as the compiler writes it: entry k carries index k - 1.
Workflows ==
    [found : BOOLEAN, loads : BOOLEAN,
     steps : UNION {[1..n -> StepOutcomes] : n \in 0..MaxWorkflowSteps}]

\* StepResult (compiler/types.py)
StepResult(step_index, success, healed) ==
    [step_index |-> step_index, success |-> success, healed |-> healed]

\* ExecutionResult (compiler/types.py)
ExecutionResult(success, steps_executed, steps_succeeded, step_results, error) ==
    [success |-> success, steps_executed |-> steps_executed,
     steps_succeeded |-> steps_succeeded, step_results |-> step_results,
     error |-> error]

RunStepNoBreak(run, step_index, outcome) ==
    CASE outcome = "missing" ->
           [run EXCEPT !.step_results = Append(@, StepResult(step_index, FALSE, FALSE)),
                       !.overall_success = FALSE, !.k = @ + 1]
      [] outcome = "ok" ->
           [run EXCEPT !.step_results = Append(@, StepResult(step_index, TRUE, FALSE)),
                       !.k = @ + 1]
      [] outcome = "healed" ->
           [run EXCEPT !.step_results = Append(@, StepResult(step_index, TRUE, TRUE)),
                       !.k = @ + 1]
      [] outcome = "unhealed" ->
           [run EXCEPT !.step_results = Append(@, StepResult(step_index, FALSE, FALSE)),
                       !.overall_success = FALSE, !.k = @ + 1]

\* One iteration of the loop of execute over STEPS.
RunStep(run, step_index, outcome) ==
    CASE outcome = "missing" ->
           [run EXCEPT !.step_results = Append(@, StepResult(step_index, FALSE, FALSE)),
                       !.overall_success = FALSE, !.broke = TRUE]
      [] outcome = "ok" ->
           [run EXCEPT !.step_results = Append(@, StepResult(step_index, TRUE, FALSE)),
                       !.k = @ + 1]
      [] outcome = "healed" ->
           [run EXCEPT !.step_results = Append(@, StepResult(step_index, TRUE, TRUE)),
                       !.k = @ + 1]
      [] outcome = "unhealed" ->
           [run EXCEPT !.step_results = Append(@, StepResult(step_index, FALSE, FALSE)),
                       !.overall_success = FALSE, !.broke = TRUE]

NotRunning == [pc |-> "start", k |-> 1, step_results |-> <<>>, overall_success |-> TRUE,
               broke |-> FALSE]

ExecutorInit ==
    /\ LensInit
    /\ cfg = Config(DEFAULT_TOKEN_BUDGET, TRUE, TRUE, None, None)
    /\ signals = NoneRec
    /\ chosen = None
    /\ arg \in [workflow : Workflows, run : {NotRunning}, awaited : {<<>>}]
    /\ ret = NoneRec

\* cache.load and _load_module: either gives None and execute returns.
ExecuteLoad ==
    /\ arg.run.pc = "start"
    /\ IF ~arg.workflow.found
       THEN /\ ret' = ExecutionResult(FALSE, 0, 0, <<>>, "not found")
            /\ arg' = [arg EXCEPT !.run.pc = "done"]
       ELSE IF ~arg.workflow.loads
       THEN /\ ret' = ExecutionResult(FALSE, 0, 0, <<>>, "load failed")
            /\ arg' = [arg EXCEPT !.run.pc = "done"]
       ELSE /\ ret' = ret
            /\ arg' = [arg EXCEPT !.run.pc = "loop"]
    /\ UNCHANGED <<lensVars, signals, chosen>>

\* for step_meta in steps_list: the body, with the healer's answer.
ExecuteStep ==
    /\ arg.run.pc = "loop"
    /\ ~arg.run.broke
    /\ arg.run.k <= Len(arg.workflow.steps)
    /\ arg' = [arg EXCEPT
                 !.run = RunStep(@, arg.run.k - 1, arg.workflow.steps[arg.run.k]),
                 !.awaited = IF arg.workflow.steps[arg.run.k] = "missing" THEN @
                             ELSE Append(@, arg.run.k - 1)]
    /\ UNCHANGED <<lensVars, signals, chosen, ret>>

\* The loop is over or was left by break: the ExecutionResult is built.
ExecuteReturn ==
    /\ arg.run.pc = "loop"
    /\ arg.run.broke \/ arg.run.k > Len(arg.workflow.steps)
    /\ ret' = ExecutionResult(
                 arg.run.overall_success,
                 Len(arg.run.step_results),
                 Cardinality({i \in 1..Len(arg.run.step_results) :
                                 arg.run.step_results[i].success}),
                 arg.run.step_results,
                 None)
    /\ arg' = [arg EXCEPT !.run.pc = "done"]
    /\ UNCHANGED <<lensVars, signals, chosen>>

ExecutorNext == ExecuteLoad \/ ExecuteStep \/ ExecuteReturn

SpecExecutor == ExecutorInit /\ [][ExecutorNext]_vars

(***************************************************************************)
(* compiler/recorder.py: an ActionRecorder driven by start, record and     *)
(* stop.  record() of an action with a target awaits the selector          *)
(* generator between reading page.url and appending the step, so other     *)
(* calls can run in between: arg.pending holds the record() calls that are *)
(* at that await.  arg.begun and arg.calls name the call begun last;       *)
(* arg.recording tells whether start() was called with no stop() since.    *)
(* ret is the call that ended last.                                        *)
(***************************************************************************)
TARGET_ACTIONS == {"click", "type", "select", "press", "hover", "scroll"}

RecordedActions == {"navigate", "click"}

\* TraceStep (compiler/types.py)
TraceStep(step_index, action, url_before, url_after) ==
    [step_index |-> step_index, action |-> action,
     has_target |-> action \in TARGET_ACTIONS,
     url_before |-> url_before, url_after |-> url_after]

\* WorkflowTrace (compiler/types.py)
WorkflowTrace(task_description, site_domain, steps, success) ==
    [task_description |-> task_description, site_domain |-> site_domain,
     steps |-> steps, success |-> success]

StopTraceUnfilled(rec, success) ==
    WorkflowTrace(IF rec.task_description = None THEN "" ELSE rec.task_description,
                  rec.site_domain, rec.steps, success)

\* stop(): url_after of every step but the last is filled from the next
\* step's url_before, then the trace is built.
StopTrace(rec, success) ==
    WorkflowTrace(IF rec.task_description = None THEN "" ELSE rec.task_description,
                  rec.site_domain,
                  [i \in 1..Len(rec.steps) |->
                      IF i < Len(rec.steps)
                      THEN [rec.steps[i] EXCEPT !.url_after = rec.steps[i + 1].url_before]
                      ELSE rec.steps[i]],
                  success)

\* ActionRecorder.__init__
NewRecorder ==
    [task_description |-> None, site_domain |-> "", steps |-> <<>>, active |-> FALSE]

Tasks == {"first task", "second task"}

RecorderInit ==
    /\ LensInit
    /\ cfg = Config(DEFAULT_TOKEN_BUDGET, TRUE, TRUE, None, None)
    /\ signals = NoneRec
    /\ chosen = None
    /\ arg = [rec |-> NewRecorder, pending |-> <<>>, calls |-> 0, begun |-> None,
              recording |-> FALSE]
    /\ ret = NoneRec

Ended(op, call, raised, value) ==
    [op |-> op, call |-> call, raised |-> raised, value |-> value]

\* start()
RecorderStart(task) ==
    /\ arg.calls < MaxCalls
    /\ arg' = [arg EXCEPT
                 !.rec = [task_description |-> task, site_domain |-> "",
                          steps |-> <<>>, active |-> TRUE],
                 !.calls = @ + 1, !.begun = "start", !.recording = TRUE]
    /\ ret' = Ended("start", arg.calls + 1, None, NoneRec)
    /\ UNCHANGED <<lensVars, signals, chosen>>

\* record() up to its await: the check of _active, page.url, the site
\* domain; an action without target has no await and appends its step.
RecorderRecord(action, url) ==
    /\ arg.calls < MaxCalls
    /\ IF ~arg.rec.active
       THEN /\ arg' = [arg EXCEPT !.calls = @ + 1, !.begun = "record"]
            /\ ret' = Ended("record", arg.calls + 1, "RuntimeError", NoneRec)
       ELSE LET domain == IF arg.rec.site_domain = "" THEN url.netloc
                          ELSE arg.rec.site_domain
            IN  IF action \in TARGET_ACTIONS
                THEN /\ Len(arg.pending) < MaxPending
                     /\ arg' = [arg EXCEPT
                                  !.rec.site_domain = domain,
                                  !.pending = Append(@, [call |-> arg.calls + 1,
                                                         action |-> action,
                                                         url_before |-> UrlStr(url)]),
                                  !.calls = @ + 1, !.begun = "record"]
                     /\ ret' = ret
                ELSE \E trace_step \in {TraceStep(Len(arg.rec.steps), action, UrlStr(url), None)} :
                        /\ arg' = [arg EXCEPT
                                     !.rec.site_domain = domain,
                                     !.rec.steps = Append(@, trace_step),
                                     !.calls = @ + 1, !.begun = "record"]
                        /\ ret' = Ended("record", arg.calls + 1, None, trace_step)
    /\ UNCHANGED <<lensVars, signals, chosen>>

\* record() after its await: the selector generator answered and the step
\* is appended, or page.evaluate raised and record() raises.
RecorderResume(i, generated) ==
    /\ i \in 1..Len(arg.pending)
    /\ LET call == arg.pending[i]
           rest == SubSeq(arg.pending, 1, i - 1)
                      \o SubSeq(arg.pending, i + 1, Len(arg.pending))
       IN  IF generated
           THEN \E trace_step \in {TraceStep(Len(arg.rec.steps), call.action,
                                       call.url_before, None)} :
                   /\ arg' = [arg EXCEPT !.rec.steps = Append(@, trace_step),
                                         !.pending = rest]
                   /\ ret' = Ended("record", call.call, None, trace_step)
           ELSE /\ arg' = [arg EXCEPT !.pending = rest]
                /\ ret' = Ended("record", call.call, "PageError", NoneRec)
    /\ UNCHANGED <<lensVars, signals, chosen>>

\* stop()
RecorderStop(success) ==
    /\ arg.calls < MaxCalls
    /\ IF ~arg.rec.active
       THEN /\ arg' = [arg EXCEPT !.calls = @ + 1, !.begun = "stop"]
            /\ ret' = Ended("stop", arg.calls + 1, "RuntimeError", NoneRec)
       ELSE /\ arg' = [arg EXCEPT
                         !.rec.active = FALSE,
                         !.rec.task_description = None,
                         !.rec.steps = <<>>,
                         !.calls = @ + 1, !.begun = "stop", !.recording = FALSE]
            /\ ret' = Ended("stop", arg.calls + 1, None, StopTrace(arg.rec, success))
    /\ UNCHANGED <<lensVars, signals, chosen>>

RecorderNext ==
    \/ \E task \in Tasks : RecorderStart(task)
    \/ \E action \in RecordedActions, url \in Urls : RecorderRecord(action, url)
    \/ \E i \in 1..MaxPending, generated \in BOOLEAN : RecorderResume(i, generated)
    \/ \E success \in BOOLEAN : RecorderStop(success)

SpecRecorder == RecorderInit /\ [][RecorderNext]_vars

(***************************************************************************)
(* Properties of observe() and reset().                                    *)
(***************************************************************************)
\* An observe() call has just ended and the page answered all its queries.
ObserveEnded == pc = "idle" /\ lastOp = "observe" /\ out.error /= "PageError"

\* C1: with diffing enabled, the first observe() after construction or
\* reset(), on a page that answers every query, returns a result whose
\* delta has is_full_state = true.
FirstObserveReturnsFullState ==
    (ObserveEnded /\ cfg.enable_diffing /\ step = 1)
        => (out.result /= NoneRec /\ out.result.delta.is_full_state)

\* C2: with diffing enabled, an observe() whose page state has another URL
\* than the stored snapshot returns a result with delta.is_full_state = true
\* and diff_discarded = true.
NavigationGate ==
    [][(/\ pc = "title" /\ pc' = "idle" /\ out'.error /= "PageError"
        /\ cfg.enable_diffing
        /\ previous /= NoneRec /\ previous.url /= cur.url)
        => (/\ out'.result /= NoneRec
            /\ out'.result.delta.is_full_state
            /\ out'.result.diff_discarded)]_vars

\* C3: with diffing enabled, an observe() on the URL of the stored snapshot
\* returns a result whose token_count is at most the token count of the
\* full-state rendering of the same page state under the same budget.
DeltaSizeFallback ==
    [][(/\ pc = "title" /\ pc' = "idle" /\ out'.error /= "PageError"
        /\ cfg.enable_diffing
        /\ previous /= NoneRec /\ previous.url = cur.url)
        => (/\ out'.result /= NoneRec
            /\ out'.result.token_count
                 <= Format(out'.result.page_state, NoneRec, cfg.token_budget).token_count)]_vars

\* C4: between two resets, every node with a given (role, name, parent_role)
\* fingerprint carries the same ref in every tree extracted, whichever
\* extractor produced it.
RefsStable == \A a, b \in issued : a[1] = b[1] => a[2] = b[2]

\* C4 witness: the same tree has been extracted a second time, by another
\* extractor than the stored snapshot's, with the same refs node by node.
RefsStableWitness ==
    /\ pc = "title"
    /\ previous /= NoneRec
    /\ Len(cur.root) >= 3
    /\ cur.rep_type /= previous.representation_type
    /\ cur.root = previous.root
    /\ cur.root[2].ref /= cur.root[3].ref

\* C5: in every tree an extractor produces, no two distinct nodes carry
\* the same ref.
RefsUniqueInTree ==
    pc = "title" =>
        \A i, j \in 1..Len(cur.root) : i /= j => cur.root[i].ref /= cur.root[j].ref

\* C6: whenever an observe() can start, the stored snapshot is the page
\* state of the most recent observe() that returned a result since
\* construction or reset, and there is none if no call returned.
PreviousIsLastCompleted == pc = "idle" => previous = completed

\* C7: an observe() that ends with an exception leaves the RefManager and
\* the SnapshotStore as they were when the call began.
FailedObserveLeavesState ==
    [][(pc /= "idle" /\ pc' = "idle" /\ out'.error /= "")
        => (refs' = pre.refs /\ previous' = pre.previous)]_vars

\* C8: the k-th observe() since construction or reset, every call having
\* been answered by the page, returns a result with step = k, stamped on the
\* page state and on the delta as well.
StepsNumberResults ==
    (ObserveEnded /\ step >= 1)
        => (/\ out.result /= NoneRec
            /\ out.result.step = step
            /\ out.result.page_state.step = step
            /\ (out.result.delta /= NoneRec => out.result.delta.step = step))

\* C9: reset() sets the step counter to 0, empties the RefManager (so that
\* any fingerprint, seen before or not, next gets @e1) and the SnapshotStore,
\* and leaves the router's cache and the configuration as they were.
ResetClears ==
    [][lastOp' = "reset"
        => (/\ step' = 0
            /\ refs'.counter = 0
            /\ DOMAIN refs'.fp_to_ref = {}
            /\ DOMAIN refs'.ref_to_fp = {}
            /\ \A fp \in DOMAIN refs.fp_to_ref \cup {<<"button", "Go", "document">>} :
                  GetOrCreate(refs', fp).ref = "@e1"
            /\ previous' = NoneRec
            /\ cache' = cache
            /\ cfg' = cfg)]_vars

\* C9 witness: a reset() that found a step counter above 0, refs issued, a
\* stored snapshot and a router cache entry.
ResetClearsWitness ==
    /\ lastOp = "reset"
    /\ resetOf.step > 0
    /\ resetOf.counter > 0
    /\ resetOf.stored
    /\ DOMAIN cache /= {}

\* The rules of C10, in the order the claim gives them: the first rule
\* whose condition holds decides.
ClaimedRepresentation(has_canvas, has_webgl, coverage, node_count) ==
    LET rules == << <<(has_canvas \/ has_webgl) /\ coverage < 50, HYBRID>>,
                    <<coverage >= 80, A11Y_TREE>>,
                    <<node_count < 2000 /\ coverage >= 50, DISTILLED_DOM>>,
                    <<coverage >= 30, HYBRID>>,
                    <<TRUE, VISION>> >>
        first == CHOOSE k \in 1..5 : rules[k][1] /\ \A j \in 1..(k - 1) : ~rules[j][1]
    IN  rules[first][2]

\* C10: RepresentationStrategy.select follows the five rules in order and
\* depends on has_canvas, has_webgl, a11y_coverage and dom_node_count only.
StrategyFollowsRules ==
    chosen /= None =>
        /\ chosen = ClaimedRepresentation(signals.has_canvas, signals.has_webgl,
                                          signals.a11y_coverage, signals.dom_node_count)
        /\ \A other \in SignalInputs :
              (/\ other.has_canvas = signals.has_canvas
               /\ other.has_webgl = signals.has_webgl
               /\ other.a11y_coverage = signals.a11y_coverage
               /\ other.dom_node_count = signals.dom_node_count)
                  => StrategySelect(other) = chosen

\* C10 witness: a canvas page with high coverage was given the a11y tree.
StrategyFollowsRulesWitness ==
    /\ chosen = A11Y_TREE
    /\ signals.has_canvas
    /\ signals.a11y_coverage >= 80

EmptyDiffOfSameTree ==
    (ret /= NoneRec /\ arg.old = arg.new)
        => (/\ ret.added = <<>>
            /\ ret.removed = <<>>
            /\ ret.changed = <<>>
            /\ ret.unchanged_count = Len(arg.new))

\* The (role, name, parent_role) of the node at index i of a tree.
FingerprintAt(tree, i) ==
    <<tree[i].role, tree[i].name,
      IF tree[i].parent = 0 THEN "" ELSE tree[tree[i].parent].role>>

\* C13: a new-tree node whose ref does not occur in the old tree, and whose
\* fingerprint is that of exactly one old-tree node and of no other
\* new-tree node, is not reported as added, and that old node is not
\* reported as removed.
FingerprintMatchNotReported ==
    ret /= NoneRec =>
        \A i \in 1..Len(arg.new) : \A j \in 1..Len(arg.old) :
            (/\ \A k \in 1..Len(arg.old) : arg.old[k].ref /= arg.new[i].ref
             /\ FingerprintAt(arg.old, j) = FingerprintAt(arg.new, i)
             /\ \A k \in 1..Len(arg.old) :
                   FingerprintAt(arg.old, k) = FingerprintAt(arg.new, i) => k = j
             /\ \A k \in 1..Len(arg.new) :
                   FingerprintAt(arg.new, k) = FingerprintAt(arg.new, i) => k = i)
                => (/\ \A a \in 1..Len(ret.added) : ret.added[a][1].ref /= arg.new[i].ref
                    /\ \A r \in 1..Len(ret.removed) : ret.removed[r][1].ref /= arg.old[j].ref)

(***************************************************************************)
(* Properties of SemanticFilter.filter.                                    *)
(***************************************************************************)
\* C14: filtering a filtered Delta again changes none of its added, removed
\* and changed sequences.
FilterIdempotent ==
    ret /= NoneRec =>
        /\ Filter(ret).added = ret.added
        /\ Filter(ret).removed = ret.removed
        /\ Filter(ret).changed = ret.changed

\* C14 witness: the filter dropped some added nodes and some changes and
\* kept others.
FilterIdempotentWitness ==
    /\ ret /= NoneRec
    /\ Len(ret.added) > 0 /\ Len(ret.added) < Len(arg.added)
    /\ Len(ret.changed) > 0 /\ Len(ret.changed) < Len(arg.changed)

\* C15: the filter keeps every added or removed node with role alert or
\* dialog, every change that includes disabled, checked, expanded or
\* focused, and every change of value whose new value is not timer-like,
\* whatever the name of the node.
FilterKeepsCritical ==
    ret /= NoneRec =>
        /\ \A k \in 1..Len(arg.added) :
              arg.added[k][1].role \in {"alert", "dialog"}
                  => \E m \in 1..Len(ret.added) : ret.added[m] = arg.added[k]
        /\ \A k \in 1..Len(arg.removed) :
              arg.removed[k][1].role \in {"alert", "dialog"}
                  => \E m \in 1..Len(ret.removed) : ret.removed[m] = arg.removed[k]
        /\ \A k \in 1..Len(arg.changed) :
              (\/ DOMAIN arg.changed[k].changed_props
                     \cap {"disabled", "checked", "expanded", "focused"} /= {}
               \/ /\ "value" \in DOMAIN arg.changed[k].changed_props
                  /\ ~IsTimerText(arg.changed[k].changed_props["value"][2]))
                  => \E m \in 1..Len(ret.changed) : ret.changed[m] = arg.changed[k]

(***************************************************************************)
(* Further properties of observe().                                        *)
(***************************************************************************)
\* C16: with diffing enabled, the delta of the result has is_full_state =
\* true when the observation is the first since construction or reset, when
\* its URL differs from the stored snapshot's, and when the delta renders
\* to more tokens than the full state of the same page state.
DeltaFlaggedFullState ==
    [][(/\ pc = "title" /\ pc' = "idle" /\ out'.error /= "PageError"
        /\ cfg.enable_diffing
        /\ \/ previous = NoneRec
           \/ previous.url /= cur.url
           \/ Format(previous', DifferDiff(previous, previous').delta,
                     cfg.token_budget).token_count
                 > Format(previous', NoneRec, cfg.token_budget).token_count)
        => (/\ out'.result /= NoneRec
            /\ out'.result.delta /= NoneRec
            /\ out'.result.delta.is_full_state)]_vars

\* C17: a page query that fails during signal extraction does not end
\* observe(): no call leaves the routing layer with an error, it goes on to
\* the extractor with a representation chosen.
SignalFailureDegrades ==
    [][pc = "route"
        => (/\ ~(pc' = "idle" /\ out'.error /= "")
            /\ pc' = "snapshot" => cur'.rep_type \in RepresentationType)]_vars

\* C19: when the browser returns no accessibility tree, the extractor
\* returns a tree of exactly one node, with role "document", an empty name
\* and a ref.
MissingTreeGivesDocument ==
    [][(/\ pc = "snapshot" /\ pc' = "title"
        /\ cur'.root = ConvertNode(cur.rep_type, <<>>, refs).root)
        => (/\ Len(cur'.root) = 1
            /\ cur'.root[1].role = "document"
            /\ cur'.root[1].name = ""
            /\ cur'.root[1].ref \in DOMAIN refs'.ref_to_fp)]_vars

(***************************************************************************)
(* Properties of the Hybrid extractor.                                     *)
(***************************************************************************)
\* C18: a screenshot failure never makes the Hybrid extractor fail: when
\* the clipped screenshot fails the viewport screenshot is attached, and
\* when the viewport screenshot fails the extraction succeeds with no
\* screenshot and no [VISUAL] marker in the full-state text.
HybridSurvivesScreenshotFailure ==
    ret /= NoneRec =>
        /\ ~ret.raised
        /\ (arg.boxes = 1 /\ ~arg.clip_ok /\ arg.viewport_ok)
              => (ret.via = "viewport" /\ ret.state.screenshot_b64 /= None)
        /\ (arg.boxes > 0 /\ ~arg.viewport_ok /\ (arg.boxes > 1 \/ ~arg.clip_ok))
              => (/\ ret.state.screenshot_b64 = None
                  /\ ~Contains(FormatFull(ret.state), "[VISUAL"))

(***************************************************************************)
(* Properties of TokenBudget.                                              *)
(***************************************************************************)
\* The character-per-token count of C20: max(1, length div 4).
ClaimedCount(t) == IF Len(t) \div 4 > 1 THEN Len(t) \div 4 ELSE 1

\* C20: truncate returns the text unchanged and was_truncated = false when
\* its count is within the limit; otherwise a prefix of the text followed by
\* the suffix, was_truncated = true, and a count of at most the limit plus
\* the count of the suffix.
TruncateWithinBudget ==
    ret /= NoneRec =>
        IF ClaimedCount(arg.text) <= arg.limit
        THEN ret.text = arg.text /\ ~ret.was_truncated
        ELSE /\ ret.was_truncated
             /\ \E k \in 0..Len(arg.text) :
                   ret.text = SubSeq(arg.text, 1, k) \o TRUNCATION_SUFFIX
             /\ ClaimedCount(ret.text) <= arg.limit + ClaimedCount(TRUNCATION_SUFFIX)

\* C20 witness: a text was cut to a non-empty proper prefix and the result
\* counts exactly the limit plus the suffix.
TruncateWithinBudgetWitness ==
    /\ ret /= NoneRec
    /\ ret.was_truncated
    /\ arg.limit > 0
    /\ Len(ret.text) < Len(arg.text) + Len(TRUNCATION_SUFFIX)
    /\ ClaimedCount(ret.text) = arg.limit + ClaimedCount(TRUNCATION_SUFFIX)

(***************************************************************************)
(* Properties of the options of BrowserLens.                               *)
(***************************************************************************)
\* The representation observe() is to use: the forced one when set, else
\* the router's choice when routing is enabled, else A11Y_TREE.
ChoiceFollowsOptions ==
    (pc = "route" /\ pc' = "snapshot")
        => IF cfg.force_representation /= None
           THEN cur'.rep_type = cfg.force_representation /\ cache' = cache
           ELSE IF cfg.enable_routing
           THEN LET o == cur.url.scheme \o "://" \o cur.url.netloc
                IN  /\ o \in DOMAIN cache'
                    /\ cur'.rep_type = IF cfg.router_override /= None THEN VISION
                                       ELSE StrategySelect(cache'[o].signals)
           ELSE cur'.rep_type = A11Y_TREE /\ cache' = cache

\* C21: observe() uses force_representation whenever it is set, without
\* invoking the router, else the router's choice when routing is enabled,
\* else A11Y_TREE; the extractor run and the representation_type of the
\* result returned are the ones so chosen.
RepresentationAsConfigured ==
    [][/\ ChoiceFollowsOptions
       /\ (pc = "title" /\ pc' = "idle" /\ out'.error /= "PageError")
             => (/\ out'.result /= NoneRec
                 /\ out'.result.representation_type = cur.rep_type
                 /\ out'.result.page_state.representation_type = cur.rep_type)]_vars

\* C22: with diffing disabled every observe() returns a result with no
\* delta, the full-state rendering and diff_discarded = false, and the
\* snapshot store is never written.
DiffingDisabledNoDelta ==
    ~cfg.enable_diffing =>
        /\ previous = NoneRec
        /\ ObserveEnded
              => (/\ out.result /= NoneRec
                  /\ out.result.delta = NoneRec
                  /\ ~out.result.diff_discarded
                  /\ out.result.formatted_text
                        = Format(out.result.page_state, NoneRec, cfg.token_budget).text)

\* The refs @e1 .. @e<n>.
RefsUpTo(n) == {"@e" \o ToString(i) : i \in 1..n}

\* C26: after any sequence of get_or_create, lookup and reset calls the two
\* maps of a RefManager are inverse bijections with exactly `counter`
\* entries each, the refs returned since the last reset are exactly
\* @e1 .. @e<counter>, and lookup(get_or_create(fp)) = fp for every
\* fingerprint.
RefMapsBijective ==
    LET rm == arg.rm
    IN  /\ \A fp \in DOMAIN rm.fp_to_ref :
              /\ rm.fp_to_ref[fp] \in DOMAIN rm.ref_to_fp
              /\ rm.ref_to_fp[rm.fp_to_ref[fp]] = fp
        /\ \A r \in DOMAIN rm.ref_to_fp :
              /\ rm.ref_to_fp[r] \in DOMAIN rm.fp_to_ref
              /\ rm.fp_to_ref[rm.ref_to_fp[r]] = r
        /\ Cardinality(DOMAIN rm.fp_to_ref) = rm.counter
        /\ Cardinality(DOMAIN rm.ref_to_fp) = rm.counter
        /\ arg.returned = RefsUpTo(rm.counter)
        /\ DOMAIN rm.ref_to_fp = RefsUpTo(rm.counter)
        /\ \A fp \in Fingerprints :
              LET got == GetOrCreate(rm, fp)
              IN  Lookup(got.rm, got.ref) = fp

\* The last of MaxCalls calls gave a second fingerprint its ref.
RefMapsBijectiveWitness ==
    /\ arg.rm.counter = 2
    /\ arg.calls = MaxCalls
    /\ ret /= NoneRec
    /\ ret.op = "get_or_create"
    /\ ret.ref = "@e2"

\* C27: get_or_create(fp) returns the ref recorded for fp and changes
\* nothing when fp was requested since the last reset; otherwise it adds one
\* to the counter, returns @e<new counter> and records the pair; lookup()
\* changes no state.
GetOrCreateAllocatesOnce ==
    [][/\ (ret' /= NoneRec /\ ret'.op = "get_or_create") =>
             IF ret'.fp \in arg.requested
             THEN /\ arg'.rm = arg.rm
                  /\ ret'.ref = arg.rm.fp_to_ref[ret'.fp]
                  /\ ret'.ref \in arg.returned
             ELSE /\ arg'.rm.counter = arg.rm.counter + 1
                  /\ ret'.ref = "@e" \o ToString(arg'.rm.counter)
                  /\ ret'.ref \notin arg.returned
                  /\ arg'.rm.fp_to_ref[ret'.fp] = ret'.ref
                  /\ arg'.rm.ref_to_fp[ret'.ref] = ret'.fp
                  /\ \A fp \in DOMAIN arg.rm.fp_to_ref :
                        arg'.rm.fp_to_ref[fp] = arg.rm.fp_to_ref[fp]
                  /\ \A r \in DOMAIN arg.rm.ref_to_fp :
                        arg'.rm.ref_to_fp[r] = arg.rm.ref_to_fp[r]
       /\ (ret' /= NoneRec /\ ret'.op = "lookup") => arg'.rm = arg.rm]_vars

\* A fingerprint was requested a second time after another had been given
\* a ref: the counter stayed at 2 and the first ref came back.
GetOrCreateAllocatesOnceWitness ==
    /\ ret /= NoneRec
    /\ ret.op = "get_or_create"
    /\ ret.before.counter = 2
    /\ arg.rm.counter = 2
    /\ ret.ref = "@e1"

\* The refs a tree carries.
RefsOf(tree) == {tree[i].ref : i \in 1..Len(tree)}

\* The (new ref, old ref) pairs diff_trees matched, by ref or by fingerprint.
DiffPairs == DiffLoop(IndexNodes(arg.old), IndexNodes(arg.new), 1, NothingMatched).pairs

\* The six semantic properties diff_trees is to compare.
SemanticProps == {"value", "checked", "expanded", "disabled", "focused", "live"}

\* Each new-tree ref is exactly one of added, changed or unchanged, and
\* unchanged_count is the number of new refs less the other two.
DeltaPartitionsNewRefs ==
    ret /= NoneRec =>
        LET added_refs == {ret.added[k][1].ref : k \in 1..Len(ret.added)}
            changed_refs == {ret.changed[k].ref : k \in 1..Len(ret.changed)}
        IN  /\ added_refs \cap changed_refs = {}
            /\ added_refs \cup changed_refs \subseteq RefsOf(arg.new)
            /\ Cardinality(added_refs) = Len(ret.added)
            /\ Cardinality(changed_refs) = Len(ret.changed)
            /\ ret.unchanged_count
                  = Cardinality(RefsOf(arg.new)) - Len(ret.added) - Len(ret.changed)

\* C28: the delta of diff_trees partitions the new tree's refs into added,
\* changed and unchanged, an old node is in removed exactly when no new node
\* was matched to it, and no old node is matched to two different new nodes.
DiffPartition ==
    /\ DeltaPartitionsNewRefs
    /\ ret /= NoneRec =>
          /\ \A r \in RefsOf(arg.old) :
                (\E k \in 1..Len(ret.removed) : ret.removed[k][1].ref = r)
                   <=> ~(\E p \in DiffPairs : p[2] = r)
          /\ \A p \in DiffPairs : \A q \in DiffPairs : p[2] = q[2] => p[1] = q[1]

\* C29: for every matched pair of nodes diff_trees records one NodeChange
\* exactly when one of the six semantic properties differs, holding exactly
\* the differing properties with (old, new); unset and false are distinct
\* values of checked and expanded; every NodeChange belongs to a matched
\* pair, so role, name or children alone produce none.
ChangeIffPropDiffers ==
    ret /= NoneRec =>
        /\ \A p \in DiffPairs :
              LET o == IndexNodes(arg.old).at[p[2]].node[1]
                  n == IndexNodes(arg.new).at[p[1]].node[1]
                  differing == {q \in SemanticProps : o[q] /= n[q]}
                  entries == {k \in 1..Len(ret.changed) : ret.changed[k].ref = p[1]}
              IN  /\ (entries /= {}) <=> (differing /= {})
                  /\ Cardinality(entries) <= 1
                  /\ \A k \in entries :
                        /\ DOMAIN ret.changed[k].changed_props = differing
                        /\ \A q \in differing :
                              ret.changed[k].changed_props[q] = <<o[q], n[q]>>
        /\ \A k \in 1..Len(ret.changed) : \E p \in DiffPairs : p[1] = ret.changed[k].ref

\* A button matched by fingerprint went from checked unset to checked false
\* and that is the one change reported.
ChangeIffPropDiffersWitness ==
    /\ ret /= NoneRec
    /\ Len(ret.changed) = 1
    /\ ret.changed[1].changed_props = [q \in {"checked"} |-> <<"unset", "false">>]
    /\ \E p \in DiffPairs : p[1] = ret.changed[1].ref /\ p[1] /= p[2]

\* Old and new tree carry the same refs, each with equal semantic properties.
SameRefsSameProps ==
    /\ RefsOf(arg.old) = RefsOf(arg.new)
    /\ \A i \in 1..Len(arg.old) : \A j \in 1..Len(arg.new) :
          arg.old[i].ref = arg.new[j].ref
             => \A q \in SemanticProps : arg.old[i][q] = arg.new[j][q]

\* C30: when the old and the new tree carry the same refs with equal
\* semantic properties per ref, diff_trees reports nothing added, removed or
\* changed, whatever the order of siblings or the parent of a node.
ReshapeInvisible ==
    (ret /= NoneRec /\ SameRefsSameProps)
        => ret.added = <<>> /\ ret.removed = <<>> /\ ret.changed = <<>>

\* A node sits under a different parent in the new tree, and the diff of
\* the two trees is empty.
ReshapeInvisibleWitness ==
    /\ ret /= NoneRec
    /\ SameRefsSameProps
    /\ \E i \in 1..Len(arg.old) : \E j \in 1..Len(arg.new) :
          /\ arg.old[i].ref = arg.new[j].ref
          /\ arg.old[i].parent > 0
          /\ arg.new[j].parent > 0
          /\ arg.old[arg.old[i].parent].ref /= arg.new[arg.new[j].parent].ref
    /\ ret.added = <<>> /\ ret.removed = <<>> /\ ret.changed = <<>>

\* The position of the first entry of STEPS that fails and is not healed;
\* one past the end when there is none.
FirstFailure(steps) ==
    IF \E i \in 1..Len(steps) : steps[i] \in {"missing", "unhealed"}
    THEN CHOOSE i \in 1..Len(steps) :
            /\ steps[i] \in {"missing", "unhealed"}
            /\ \A j \in 1..(i - 1) : steps[j] \notin {"missing", "unhealed"}
    ELSE Len(steps) + 1

\* C24: for a workflow that loads, execute runs the entries of STEPS in
\* list order and stops at the first step that fails unhealed: no later
\* step is run, only the last result can be a failure, steps_executed is
\* the number of results and at most the length of STEPS, success holds
\* exactly when every entry gave a successful result, and steps_succeeded
\* = steps_executed exactly when success holds; an id missing from the cache
\* gives success = false with 0 steps executed.
ExecuteStopsAtFirstFailure ==
    /\ \A i \in 1..Len(arg.awaited) :
          /\ arg.awaited[i] < FirstFailure(arg.workflow.steps)
          /\ i > 1 => arg.awaited[i - 1] < arg.awaited[i]
    /\ ret /= NoneRec =>
          LET steps == arg.workflow.steps
              res == ret.step_results
              n == Len(res)
          IN  IF ~arg.workflow.found
              THEN ~ret.success /\ ret.steps_executed = 0
              ELSE arg.workflow.loads =>
                     /\ n = IF FirstFailure(steps) <= Len(steps)
                            THEN FirstFailure(steps) ELSE Len(steps)
                     /\ \A i \in 1..n :
                           /\ res[i].step_index = i - 1
                           /\ res[i].success <=> steps[i] \in {"ok", "healed"}
                           /\ ~res[i].success => i = n
                     /\ ret.steps_executed = n
                     /\ n <= Len(steps)
                     /\ ret.success <=>
                           (n = Len(steps) /\ \A i \in 1..n : res[i].success)
                     /\ (ret.steps_succeeded = ret.steps_executed) <=> ret.success

\* A step was healed, the next one failed unhealed, and execute returned
\* without running the entry after it.
ExecuteStopsAtFirstFailureWitness ==
    /\ ret /= NoneRec
    /\ Len(arg.workflow.steps) = 3
    /\ arg.workflow.steps[1] = "healed"
    /\ arg.workflow.steps[2] = "unhealed"
    /\ ret.steps_executed = 2
    /\ ret.steps_succeeded = 1
    /\ ~ret.success
    /\ arg.awaited = <<0, 1>>

\* A call of the recorder has just begun.
CallBegins(op) == arg'.calls = arg.calls + 1 /\ arg'.begun = op

\* C25: record() and stop() raise RuntimeError unless start() was called
\* with no stop() since; start() discards every step recorded so far; the
\* trace stop() returns holds the recorded steps in recording order with
\* step_index 0..n-1, each url_after equal to the next step's url_before,
\* and the last url_after unset.
RecorderTwoStates ==
    [][/\ (CallBegins("record") \/ CallBegins("stop")) =>
             ((ret'.call = arg'.calls /\ ret'.raised = "RuntimeError")
                 <=> ~arg.recording)
       /\ CallBegins("start") => arg'.rec.steps = <<>> /\ ret'.raised = None
       /\ (CallBegins("stop") /\ arg.recording) =>
             LET trace == ret'.value
                 n == Len(trace.steps)
             IN  /\ n = Len(arg.rec.steps)
                 /\ \A k \in 1..n :
                       /\ trace.steps[k].step_index = k - 1
                       /\ trace.steps[k].action = arg.rec.steps[k].action
                       /\ trace.steps[k].url_before = arg.rec.steps[k].url_before
                       /\ k < n => trace.steps[k].url_after
                                      = trace.steps[k + 1].url_before
                       /\ k = n => trace.steps[k].url_after = None]_vars

\* stop() returned a trace of two steps recorded on two different pages.
RecorderTwoStatesWitness ==
    /\ ret /= NoneRec
    /\ ret.op = "stop"
    /\ ret.raised = None
    /\ Len(ret.value.steps) = 2
    /\ ret.value.steps[1].url_after = "https://a.test/login"
    /\ ret.value.steps[1].url_before = "https://a.test/"
    /\ ret.value.steps[2].url_after = None

\* C23: two lenses share no mutable state: whatever observe() and reset()
\* calls one lens makes while the other is left alone, the other finds its
\* step counter, ref mappings, previous snapshot and router signal cache
\* exactly as it left them.
LensesShareNothing ==
    [][/\ arg'.focus /= arg.focus =>
             /\ step' = arg.parked.step
             /\ refs' = arg.parked.refs
             /\ previous' = arg.parked.previous
             /\ cache' = arg.parked.cache
       /\ arg'.focus = arg.focus => arg'.parked = arg.parked]_vars

\* The first lens is back in control, with the refs and the router cache of
\* its own observation, after the second one observed a larger page and
\* was reset.
LensesShareNothingWitness ==
    /\ arg.switches = 2
    /\ arg.focus = 1
    /\ arg.parked.resetOf /= NoReset
    /\ arg.parked.resetOf.counter = 3
    /\ arg.parked.refs.counter = 0
    /\ refs.counter = 2
    /\ step > 0
    /\ DOMAIN cache /= {}
    /\ lastOp = "observe"
    /\ arg.parked.lastOp = "reset"

\* A name holds one of the advertising keywords, in any letter case.
NamesAd(name) ==
    \E w \in {"advertisement", "sponsored", "promoted", "ad choice", "ad by"} :
        \E i \in 1..Len(name) : \E j \in i..Len(name) : Lower(SubSeq(name, i, j)) = w

\* The three conditions under which filter is to remove a node.
NodeIsNoise(n) ==
    \/ NamesAd(n[1].name)
    \/ n[1].role \in {"text", "StaticText", "generic"} /\ IsTimerText(n[1].name)
    \/ n[1].role \in {"status", "timer", "marquee", "log"} /\ n[1].live /= ""

FilterDropsTimerChanges ==
    ret /= NoneRec =>
        /\ ret.changed
              = SelectSeq(arg.changed,
                          LAMBDA c : ~(\/ NamesAd(c.name)
                                       \/ /\ DOMAIN c.changed_props = {"value"}
                                          /\ IsTimerText(c.changed_props["value"][2])))
        /\ \A k \in 1..Len(arg.changed) :
              (/\ ~NamesAd(arg.changed[k].name)
               /\ DOMAIN arg.changed[k].changed_props /= {"value"})
                  => \E m \in 1..Len(ret.changed) : ret.changed[m] = arg.changed[k]

\* A change of value and focus to a timer-like value was kept, a change of
\* value alone away from a timer-like value was kept, and a change of value
\* alone to a timer-like value was dropped.
FilterDropsTimerChangesWitness ==
    /\ ret /= NoneRec
    /\ Len(arg.changed) = 2
    /\ arg.changed[1] = ValueChange("text", "Clock", "x", "12:31")
    /\ DOMAIN arg.changed[2].changed_props = {"value", "focused"}
    /\ ret.changed = <<arg.changed[2]>>

\* The differ has just returned a Delta.
DeltaReturned == ret /= NoneRec /\ ret.op \in {"diff", "force_full_state"}

\* C33: every Delta of StateDiffer.diff or force_full_state with
\* is_full_state = true has empty added, removed and changed (total_changes
\* = 0) and unchanged_count equal to the number of nodes of the current
\* tree; every Delta with is_full_state = false comes from a tree diff
\* against a stored snapshot.
FullStateDeltaIsEmpty ==
    DeltaReturned =>
        IF ret.delta.is_full_state
        THEN /\ ret.delta.added = <<>>
             /\ ret.delta.removed = <<>>
             /\ ret.delta.changed = <<>>
             /\ Len(ret.delta.added) + Len(ret.delta.removed) + Len(ret.delta.changed) = 0
             /\ ret.delta.unchanged_count = Len(ret.current.root)
        ELSE /\ ret.op = "diff"
             /\ ret.before /= NoneRec
             /\ ret.delta.step = ret.current.step

\* force_full_state returned a full-state Delta over a stored snapshot, for
\* a tree of three nodes two of which carry one ref.
FullStateDeltaIsEmptyWitness ==
    /\ DeltaReturned
    /\ ret.op = "force_full_state"
    /\ ret.before /= NoneRec
    /\ ret.delta.is_full_state
    /\ ret.delta.unchanged_count = 3
    /\ ret.current.root[2].ref = ret.current.root[3].ref

\* s is a subsequence of t: the elements of s appear in t in the same order.
IsSubsequence(s, t) ==
    \E f \in [1..Len(s) -> 1..Len(t)] :
        /\ \A i \in 1..Len(s) : s[i] = t[f[i]]
        /\ \A i \in 1..Len(s) : \A j \in 1..Len(s) : i < j => f[i] < f[j]

\* What diff_trees handed to the filter in the call that has just returned.
Unfiltered ==
    DiffTrees(ret.before.root, ret.current.root, ret.current.step,
              ret.current.representation_type)

\* The differ has just returned a Delta it made by a tree diff.
TreeDiffReturned == DeltaReturned /\ ret.op = "diff" /\ ret.before /= NoneRec

\* filter only removes entries and leaves the other fields of the Delta.
FilterOnlyRemoves ==
    TreeDiffReturned =>
        /\ IsSubsequence(ret.delta.added, Unfiltered.added)
        /\ IsSubsequence(ret.delta.removed, Unfiltered.removed)
        /\ IsSubsequence(ret.delta.changed, Unfiltered.changed)
        /\ ret.delta.step = Unfiltered.step
        /\ ret.delta.unchanged_count = Unfiltered.unchanged_count
        /\ ret.delta.is_full_state = Unfiltered.is_full_state
        /\ ret.delta.representation_type = Unfiltered.representation_type

\* C40 as stated: filter only removes entries, in order, and leaves step,
\* unchanged_count, is_full_state and representation_type; and for every
\* delta StateDiffer.diff returns, |added| + |changed| + unchanged_count
\* equals the number of distinct refs of the current tree.
FilterKeepsPartition ==
    /\ FilterOnlyRemoves
    /\ (DeltaReturned /\ ret.op = "diff") =>
          Len(ret.delta.added) + Len(ret.delta.changed) + ret.delta.unchanged_count
             = Cardinality(RefsOf(ret.current.root))

\* C40 amended: filter only removes entries, in order, and leaves step,
\* unchanged_count, is_full_state and representation_type; so for every
\* delta StateDiffer.diff makes by a tree diff, |added| + |changed| +
\* unchanged_count is the number of distinct refs of the current tree less
\* the number of added and changed entries the filter removed.
FilterLeavesCountBehind ==
    /\ FilterOnlyRemoves
    /\ TreeDiffReturned =>
          Len(ret.delta.added) + Len(ret.delta.changed) + ret.delta.unchanged_count
             = Cardinality(RefsOf(ret.current.root))
                  - (Len(Unfiltered.added) - Len(ret.delta.added))
                  - (Len(Unfiltered.changed) - Len(ret.delta.changed))

\* A clock text was added to the page and the filter removed it: the Delta
\* lists nothing and counts two unchanged nodes for a tree of three refs.
FilterLeavesCountBehindWitness ==
    /\ TreeDiffReturned
    /\ Len(Unfiltered.added) = 1
    /\ ret.delta.added = <<>>
    /\ ret.delta.changed = <<>>
    /\ ret.delta.unchanged_count = 2
    /\ Cardinality(RefsOf(ret.current.root)) = 3

\* C34: invalidate_cache(url) removes the entry of url's origin and nothing
\* else (nothing at all when that origin has no entry), invalidate_cache()
\* removes every entry, and the next select() or get_signals() for an
\* invalidated origin queries the page again, however recent the entry was.
InvalidateRemovesOneOrigin ==
    /\ (ret /= NoneRec /\ ret.op = "invalidate_cache" /\ ret.url /= NoneRec) =>
          /\ DOMAIN arg.cache = DOMAIN ret.before \ {Origin(ret.url)}
          /\ \A o \in DOMAIN arg.cache : arg.cache[o] = ret.before[o]
    /\ (ret /= NoneRec /\ ret.op = "invalidate_cache" /\ ret.url = NoneRec) =>
          DOMAIN arg.cache = {}
    /\ (ret /= NoneRec /\ ret.op \in {"select", "get_signals"} /\ ret.dropped) =>
          ret.queried

\* An origin queried less than a time-to-live ago was invalidated while
\* another origin kept its entry, and select() has just queried it again.
InvalidateRemovesOneOriginWitness ==
    /\ ret /= NoneRec
    /\ ret.op = "select"
    /\ ret.dropped
    /\ ret.queried
    /\ ret.since >= 0
    /\ ret.since < CACHE_TTL
    /\ Origin(ret.url) \notin DOMAIN ret.before
    /\ DOMAIN ret.before /= {}
    /\ Cardinality(DOMAIN arg.cache) = 2

\* C39: a PageSignals object get_signals() has returned keeps the fields it
\* was returned with through every later router call.
HandedSignalsStable ==
    \A i \in 1..Len(arg.handed) : arg.heap[arg.handed[i].id] = arg.handed[i].signals

\* The levels heal() ran are in rising order.
TriedInOrder ==
    \A i \in 1..Len(arg.tried) : \A j \in 1..Len(arg.tried) :
        i < j => arg.tried[i] < arg.tried[j]

\* C36: heal() runs level 1, then 2, then 3, and returns (True, L) at the
\* first level L that heals without running a later one; level 2 runs only
\* with a lens and a target that has a role and a name, level 3 only with
\* an llm_caller; when no level it ran healed it returns (False, None); and
\* whatever is raised inside level 2 or 3, heal() returns.
HealLevelsInOrder ==
    /\ TriedInOrder
    /\ arg.tried /= <<>> => arg.tried[1] = 1
    /\ \A i \in 1..Len(arg.tried) :
          /\ arg.tried[i] = 2 => (arg.lens /= None /\ arg.role /= "" /\ arg.name /= "")
          /\ arg.tried[i] = 3 => arg.llm_caller /= None
          /\ i < Len(arg.tried) => arg.outcomes[i] /= "healed"
    /\ arg.at = "returned" <=> ret /= NoneRec
    /\ ret /= NoneRec =>
          /\ ret.healed =>
                /\ ret.heal_level = arg.tried[Len(arg.tried)]
                /\ arg.outcomes[Len(arg.tried)] = "healed"
          /\ ~ret.healed =>
                /\ ret.heal_level = None
                /\ \A i \in 1..Len(arg.tried) : arg.outcomes[i] /= "healed"
                /\ (arg.lens /= None /\ arg.role /= "" /\ arg.name /= "") =>
                      \E i \in 1..Len(arg.tried) : arg.tried[i] = 2
                /\ arg.llm_caller /= None => \E i \in 1..Len(arg.tried) : arg.tried[i] = 3
    /\ arg.at /= "raised"

\* Level 1 found no selector, observe() raised inside level 2, and level 3
\* healed the step: heal() returned (True, 3).
HealLevelsInOrderWitness ==
    /\ ret /= NoneRec
    /\ ret.healed
    /\ ret.heal_level = 3
    /\ arg.tried = <<1, 2, 3>>
    /\ arg.outcomes = <<"no_selectors", "observe_raises", "healed">>
    /\ arg.lens = "BrowserLens"

\* The i-th call that ended had every page query answered.
Answered(i) == arg.log[i].error /= "PageError"

\* The i-th call that ended was not overtaken: no other call began between its
\* increment of the step and its end.
NotOvertaken(i) == Answered(i) /\ arg.log[i].stamped = arg.log[i].own

\* C37: a level-2 heal attempt is one observe() on the lens that owns the
\* healer: it advances the step by one and leaves its own page state in
\* the differ's store, so the agent's next observe() is numbered one after
\* it and is diffed against the healer's page state.
HealObserveAdvancesLens ==
    \A i \in 1..Len(arg.log) :
        (arg.log[i].by = "healer" /\ NotOvertaken(i)) =>
            /\ arg.log[i].own = arg.log[i].from + 1
            /\ arg.log[i].stored /= NoneRec
            /\ arg.log[i].stored.step = arg.log[i].own
            /\ arg.log[i].stored.url = arg.log[i].url
            /\ (i < Len(arg.log) /\ arg.log[i + 1].by = "agent" /\ NotOvertaken(i + 1)
                    /\ arg.log[i + 1].from = arg.log[i].own) =>
                  /\ arg.log[i + 1].own = arg.log[i].own + 1
                  /\ arg.log[i + 1].against = arg.log[i].stored

\* The agent observed one page, the healer then observed another with a
\* larger tree, and the agent's next observe() held the healer's page state
\* as the previous snapshot, not its own.
HealObserveAdvancesLensWitness ==
    /\ Len(arg.log) = 3
    /\ \A i \in 1..3 : NotOvertaken(i)
    /\ arg.log[1].by = "agent"
    /\ arg.log[2].by = "healer"
    /\ arg.log[3].by = "agent"
    /\ arg.log[3].own = 3
    /\ arg.log[3].against = arg.log[2].stored
    /\ arg.log[2].stored /= arg.log[1].stored
    /\ Len(arg.log[2].stored.root) /= Len(arg.log[1].stored.root)

\* C38: an observe() whose page queries are answered returns a result that
\* carries the step counter's value when the call resumed, so two calls
\* interleaved at an await return results with the same step number.
InterleavedResultsShareStep ==
    \A i \in 1..Len(arg.log) :
        Answered(i) =>
            /\ arg.log[i].result /= NoneRec
            /\ arg.log[i].result.step = arg.log[i].stamped

\* What the code does for C38 short of returning: the page state each call
\* leaves in the store carries the counter's value at the time it resumed.
StampIsCounterAtResume ==
    \A i \in 1..Len(arg.log) :
        Answered(i) => arg.log[i].stored.step = arg.log[i].stamped

\* Two calls began before either ended, and both stamped the step 2.
StampIsCounterAtResumeWitness ==
    /\ Len(arg.log) = 2
    /\ Answered(1) /\ Answered(2)
    /\ arg.log[1].own = 1
    /\ arg.log[2].own = 2
    /\ arg.log[1].stamped = 2
    /\ arg.log[2].stamped = 2

\* C35: with diffing enabled, an observe() whose page queries are answered
\* returns a result whose diff_discarded is true exactly when a stored
\* snapshot has another URL than the page state, or the delta is not
\* full-state and renders to more tokens than the full state.
DiffDiscardedExactly ==
    [][(/\ pc = "title" /\ pc' = "idle" /\ out'.error /= "PageError"
        /\ cfg.enable_diffing)
        => (/\ out'.result /= NoneRec
            /\ out'.result.diff_discarded
                 = (\/ previous /= NoneRec /\ previous.url /= out'.result.url
                    \/ /\ ~out'.result.delta.is_full_state
                       /\ Format(out'.result.page_state, out'.result.delta,
                                 cfg.token_budget).token_count
                            > Format(out'.result.page_state, NoneRec,
                                     cfg.token_budget).token_count))]_vars

====
